---------------------------- MODULE Spec2Model ----------------------------
(***************************************************************************)
(* Image -> feature -> model-parameter pipeline of ProductProAI:           *)
(* ColorExtractor, ShapeDetector, TextureAnalyzer, ModelGenerator and the  *)
(* ImageAnalyzer orchestrator that sequences them.                         *)
(*                                                                         *)
(* Python dicts are records, Python lists are sequences, Python strings    *)
(* that are only compared are TLA+ strings, and strings that are parsed or *)
(* formatted (hex colors, file names) are sequences of one-character       *)
(* strings.  Floats are exact rationals [n, d] or integers scaled by 100.  *)
(***************************************************************************)
EXTENDS Integers, Sequences, FiniteSets, TLC

VARIABLES
    \* ModelGenerator.generate_model_parameters: arguments and return value
    shape_analysis, color_analysis, texture_analysis, model_params,
    \* ShapeDetector: what the image libraries hand to the detector, and
    \* the arguments/result of one _identify_shape call
    readable, contours, has_lines, has_circles, ident,
    \* ColorExtractor: the image file, the configured palette size, the
    \* clustering KMeans produced and the palette get_color_palette returned
    image, n_colors, kmeans, palette,
    \* ImageAnalyzer: the image files on disk, the artifact files under
    \* output_dir, and the locals of each analyze_image invocation
    disk, files, run,
    \* one call of a helper method (_determine_dominant_shapes,
    \* _determine_texture_type, ...): its arguments and its return value
    call,
    \* DesignManager: self.design_projects, the attribute
    \* image_recognition_service, the number of uuid.uuid4() calls made and
    \* the time datetime.now() last returned
    design_projects, image_recognition_service, uuids, clock

modelVars == <<shape_analysis, color_analysis, texture_analysis, model_params>>
shapeVars == <<readable, contours, has_lines, has_circles, ident>>
colorVars == <<image, n_colors, kmeans, palette>>
analyzerVars == <<disk, files, run>>
helperVars == <<call>>
designVars == <<design_projects, image_recognition_service, uuids, clock>>
vars == <<modelVars, shapeVars, colorVars, analyzerVars, helperVars, designVars>>

-----------------------------------------------------------------------------
(* Python values *)

\* Python's None
NoneValue == [py_none |-> TRUE]

\* a value not produced yet
NotYet == [not_yet |-> TRUE]

\* dict.get(key, default)
Get(d, k, default) == IF k \in DOMAIN d THEN d[k] ELSE default

\* x in list
InList(x, list) == \E i \in 1..Len(list) : list[i] = x

\* list[:n]
Take(list, n) == SubSeq(list, 1, IF Len(list) < n THEN Len(list) ELSE n)

\* the lists of at most n elements of S, and the elements of a list
SeqsUpTo(S, n) == UNION {[1..k -> S] : k \in 0..n}
Range(f) == {f[i] : i \in DOMAIN f}

\* [x] * n, and the concatenation of a list of lists
RECURSIVE Repeated(_, _)
Repeated(x, n) == IF n = 0 THEN << >> ELSE <<x>> \o Repeated(x, n - 1)

RECURSIVE Concat(_)
Concat(lists) == IF lists = << >> THEN << >> ELSE Head(lists) \o Concat(Tail(lists))

\* exact rationals standing for Python floats
Rat(n, d) == [n |-> n, d |-> d]
RLess(a, b) == a.n * b.d < b.n * a.d
REq(a, b) == a.n * b.d = b.n * a.d
RMin(a, b) == IF RLess(b, a) THEN b ELSE a
One == Rat(1, 1)
Two == Rat(2, 1)

-----------------------------------------------------------------------------
(* ModelGenerator *)

\* the record generate_model_parameters returns from its except branch
ErrorDefault ==
    [type |-> "basic_cube",
     dimensions |-> [width |-> One, height |-> One, depth |-> One],
     colors |-> << [hex |-> <<"#","C","C","C","C","C","C">>, name |-> "Gray"] >>,
     materials |-> <<"Plastic">>,
     details |-> << >>]

DetermineModelTypeNoCircular(sa) ==
    LET dominant_shapes == Get(sa, "dominant_shapes", <<"Unknown">>) IN
    IF InList("Circle", dominant_shapes) THEN "cylindrical"
    ELSE IF InList("Rectangle", dominant_shapes) \/ InList("Square", dominant_shapes)
         THEN "box"
    ELSE IF InList("Triangle", dominant_shapes) THEN "pyramid"
    ELSE IF InList("Polygon", dominant_shapes) THEN "polyhedron"
    ELSE IF InList("Organic", dominant_shapes) THEN "organic"
    ELSE "generic"

\* _determine_model_type, for a shape_analysis that is a dict
DetermineModelType(sa) ==
    LET dominant_shapes == Get(sa, "dominant_shapes", <<"Unknown">>) IN
    IF InList("Circle", dominant_shapes) \/ InList("Circular", dominant_shapes)
    THEN "cylindrical"
    ELSE IF InList("Rectangle", dominant_shapes) \/ InList("Square", dominant_shapes)
         THEN "box"
    ELSE IF InList("Triangle", dominant_shapes) THEN "pyramid"
    ELSE IF InList("Polygon", dominant_shapes) THEN "polyhedron"
    ELSE IF InList("Organic", dominant_shapes) THEN "organic"
    ELSE "generic"

\* max(shapes, key=lambda x: x.get('area', 0)): the first record of largest area
LargestShape(shapes) ==
    LET Area(i) == Get(shapes[i], "area", 0)
        best == CHOOSE i \in 1..Len(shapes) :
                    /\ \A j \in 1..Len(shapes) : Area(j) <= Area(i)
                    /\ \A j \in 1..(i - 1) : Area(j) < Area(i)
    IN shapes[best]

GenerateDimensionsUncapped(sa) ==
    LET shapes == Get(sa, "shape_details", << >>) IN
    IF shapes = << >>
    THEN [width |-> One, height |-> One, depth |-> One]
    ELSE LET largest_shape == LargestShape(shapes)
             aspect_ratio == Get(largest_shape, "aspect_ratio", One)
             width == IF RLess(One, aspect_ratio) THEN aspect_ratio ELSE One
             height == IF RLess(One, aspect_ratio) THEN One
                       ELSE RMin(Two, IF aspect_ratio.n > 0
                                      THEN Rat(aspect_ratio.d, aspect_ratio.n)
                                      ELSE One)
             shape_type == Get(largest_shape, "type", "")
             depth == IF shape_type \in {"Circle", "Square"}
                      THEN width
                      ELSE Rat(width.n, 2 * width.d)
         IN [width |-> width, height |-> height, depth |-> depth]

\* _generate_dimensions
GenerateDimensions(sa) ==
    LET shapes == Get(sa, "shape_details", << >>) IN
    IF shapes = << >>
    THEN [width |-> One, height |-> One, depth |-> One]
    ELSE LET largest_shape == LargestShape(shapes)
             aspect_ratio == Get(largest_shape, "aspect_ratio", One)
             width == IF RLess(One, aspect_ratio) THEN RMin(Two, aspect_ratio) ELSE One
             height == IF RLess(One, aspect_ratio) THEN One
                       ELSE RMin(Two, IF aspect_ratio.n > 0
                                      THEN Rat(aspect_ratio.d, aspect_ratio.n)
                                      ELSE One)
             shape_type == Get(largest_shape, "type", "")
             depth == IF shape_type \in {"Circle", "Square"}
                      THEN width
                      ELSE Rat(width.n, 2 * width.d)
         IN [width |-> width, height |-> height, depth |-> depth]


\* the digits int(s, 16) accepts
HexLower == <<"0","1","2","3","4","5","6","7","8","9","a","b","c","d","e","f">>
HexUpper == <<"0","1","2","3","4","5","6","7","8","9","A","B","C","D","E","F">>

IsHexDigit(c) == \E i \in 1..16 : HexLower[i] = c \/ HexUpper[i] = c
HexVal(c) == (CHOOSE i \in 1..16 : HexLower[i] = c \/ HexUpper[i] = c) - 1

\* str.lstrip('#')
RECURSIVE LStripHash(_)
LStripHash(s) ==
    IF s # << >> /\ Head(s) = "#" THEN LStripHash(Tail(s)) ELSE s

\* int(s[i:i+2], 16) is defined for the three slices at 0, 2, 4
HexPairOk(s, i) ==
    /\ Len(s) >= i + 2
    /\ IsHexDigit(s[i + 1])
    /\ IsHexDigit(s[i + 2])
HexPair(s, i) == 16 * HexVal(s[i + 1]) + HexVal(s[i + 2])
ParseHexOk(s) == HexPairOk(s, 0) /\ HexPairOk(s, 2) /\ HexPairOk(s, 4)
ParseHex(s) == <<HexPair(s, 0), HexPair(s, 2), HexPair(s, 4)>>

\* the dict color_names of _process_colors, in insertion order
ColorNames ==
    << [hex |-> <<"#","F","F","0","0","0","0">>, name |-> "Red"],
       [hex |-> <<"#","0","0","F","F","0","0">>, name |-> "Green"],
       [hex |-> <<"#","0","0","0","0","F","F">>, name |-> "Blue"],
       [hex |-> <<"#","F","F","F","F","0","0">>, name |-> "Yellow"],
       [hex |-> <<"#","F","F","0","0","F","F">>, name |-> "Magenta"],
       [hex |-> <<"#","0","0","F","F","F","F">>, name |-> "Cyan"],
       [hex |-> <<"#","0","0","0","0","0","0">>, name |-> "Black"],
       [hex |-> <<"#","F","F","F","F","F","F">>, name |-> "White"],
       [hex |-> <<"#","8","0","8","0","8","0">>, name |-> "Gray"] >>

\* squared Euclidean distance in RGB space (the code compares the square
\* roots, which are ordered alike)
Dist2(a, b) ==
    (a[1] - b[1]) * (a[1] - b[1]) + (a[2] - b[2]) * (a[2] - b[2])
        + (a[3] - b[3]) * (a[3] - b[3])

\* _find_closest_color_name raises ValueError on a malformed hex string
FindClosestColorNameRaises(hex_color, color_map) ==
    /\ ~ \E i \in 1..Len(color_map) : color_map[i].hex = hex_color
    /\ ~ ParseHexOk(LStripHash(hex_color))

FindClosestColorNameLastOnTie(hex_color, color_map) ==
    IF \E i \in 1..Len(color_map) : color_map[i].hex = hex_color
    THEN color_map[CHOOSE i \in 1..Len(color_map) : color_map[i].hex = hex_color].name
    ELSE IF color_map = << >> THEN "Custom"
    ELSE LET rgb == ParseHex(LStripHash(hex_color))
             D(i) == Dist2(rgb, ParseHex(LStripHash(color_map[i].hex)))
             best == CHOOSE i \in 1..Len(color_map) :
                         /\ \A j \in 1..Len(color_map) : D(i) <= D(j)
                         /\ \A j \in (i + 1)..Len(color_map) : D(i) < D(j)
         IN color_map[best].name

\* _find_closest_color_name: an exact key, else the first entry at minimum
\* distance ('distance < min_distance' keeps the earlier entry on a tie)
FindClosestColorName(hex_color, color_map) ==
    IF \E i \in 1..Len(color_map) : color_map[i].hex = hex_color
    THEN color_map[CHOOSE i \in 1..Len(color_map) : color_map[i].hex = hex_color].name
    ELSE IF color_map = << >> THEN "Custom"
    ELSE LET rgb == ParseHex(LStripHash(hex_color))
             D(i) == Dist2(rgb, ParseHex(LStripHash(color_map[i].hex)))
             best == CHOOSE i \in 1..Len(color_map) :
                         /\ \A j \in 1..Len(color_map) : D(i) <= D(j)
                         /\ \A j \in 1..(i - 1) : D(i) < D(j)
         IN color_map[best].name

ProcessColorsRaises(ca) ==
    LET hex_colors == Take(Get(ca, "hex_colors", << >>), 3) IN
    \E i \in 1..Len(hex_colors) : FindClosestColorNameRaises(hex_colors[i], ColorNames)

\* _process_colors
ProcessColors(ca) ==
    LET hex_colors == Take(Get(ca, "hex_colors", << >>), 3) IN
    [i \in 1..Len(hex_colors) |->
        [hex |-> hex_colors[i],
         name |-> FindClosestColorName(hex_colors[i], ColorNames)]]

SuggestMaterialsUntruncated(ta) ==
    LET texture_type == Get(ta, "texture_type", "Unknown")
        pattern_type == Get(ta, "pattern_type", "Unknown")
        base == IF texture_type = "Smooth" THEN <<"Glass", "Polished Metal", "Plastic">>
                ELSE IF texture_type = "Matte" THEN <<"Matte Plastic", "Rubber", "Fabric">>
                ELSE IF texture_type = "Rough" THEN <<"Stone", "Concrete", "Wood">>
                ELSE IF texture_type = "Textured"
                     THEN <<"Textured Plastic", "Leather", "Canvas">>
                ELSE <<"Plastic">>
        bonus == IF pattern_type = "Geometric" THEN <<"3D Printed Polymer">>
                 ELSE IF pattern_type = "Organic" THEN <<"Natural Wood">>
                 ELSE << >>
    IN base \o bonus

\* _suggest_materials
SuggestMaterials(ta) ==
    LET texture_type == Get(ta, "texture_type", "Unknown")
        pattern_type == Get(ta, "pattern_type", "Unknown")
        base == IF texture_type = "Smooth" THEN <<"Glass", "Polished Metal", "Plastic">>
                ELSE IF texture_type = "Matte" THEN <<"Matte Plastic", "Rubber", "Fabric">>
                ELSE IF texture_type = "Rough" THEN <<"Stone", "Concrete", "Wood">>
                ELSE IF texture_type = "Textured"
                     THEN <<"Textured Plastic", "Leather", "Canvas">>
                ELSE <<"Plastic">>
        bonus == IF pattern_type = "Geometric" THEN <<"3D Printed Polymer">>
                 ELSE IF pattern_type = "Organic" THEN <<"Natural Wood">>
                 ELSE << >>
    IN Take(base \o bonus, 3)

GenerateDetailsTextureFirst(sa, ta) ==
    LET complexity == Get(sa, "shape_complexity", "Low")
        texture_type == Get(ta, "texture_type", "Unknown")
        pattern_type == Get(ta, "pattern_type", "Unknown")
        d1 == IF complexity = "High"
              THEN << [type |-> "surface_detail",
                       description |-> "Complex surface patterns", intensity |-> 8] >>
              ELSE IF complexity = "Medium"
              THEN << [type |-> "surface_detail",
                       description |-> "Moderate surface patterns", intensity |-> 5] >>
              ELSE << >>
        d2 == IF texture_type = "Rough"
              THEN << [type |-> "roughness",
                       description |-> "Rough surface texture", intensity |-> 7] >>
              ELSE IF texture_type = "Textured"
              THEN << [type |-> "bump_map",
                       description |-> "Textured surface", intensity |-> 6] >>
              ELSE << >>
        d3 == IF pattern_type = "Geometric"
              THEN << [type |-> "geometric_pattern",
                       description |-> "Geometric surface pattern", intensity |-> 5] >>
              ELSE IF pattern_type = "Organic"
              THEN << [type |-> "organic_pattern",
                       description |-> "Organic surface pattern", intensity |-> 6] >>
              ELSE << >>
    IN d2 \o d1 \o d3

\* _generate_details; intensity is scaled by 10
GenerateDetails(sa, ta) ==
    LET complexity == Get(sa, "shape_complexity", "Low")
        texture_type == Get(ta, "texture_type", "Unknown")
        pattern_type == Get(ta, "pattern_type", "Unknown")
        d1 == IF complexity = "High"
              THEN << [type |-> "surface_detail",
                       description |-> "Complex surface patterns", intensity |-> 8] >>
              ELSE IF complexity = "Medium"
              THEN << [type |-> "surface_detail",
                       description |-> "Moderate surface patterns", intensity |-> 5] >>
              ELSE << >>
        d2 == IF texture_type = "Rough"
              THEN << [type |-> "roughness",
                       description |-> "Rough surface texture", intensity |-> 7] >>
              ELSE IF texture_type = "Textured"
              THEN << [type |-> "bump_map",
                       description |-> "Textured surface", intensity |-> 6] >>
              ELSE << >>
        d3 == IF pattern_type = "Geometric"
              THEN << [type |-> "geometric_pattern",
                       description |-> "Geometric surface pattern", intensity |-> 5] >>
              ELSE IF pattern_type = "Organic"
              THEN << [type |-> "organic_pattern",
                       description |-> "Organic surface pattern", intensity |-> 6] >>
              ELSE << >>
    IN d1 \o d2 \o d3

GenerateModelParametersRaisesOnEmptyPalette(sa, ca, ta) ==
    \/ sa = NoneValue
    \/ ca = NoneValue
    \/ ta = NoneValue
    \/ ProcessColorsRaises(ca)
    \/ Get(ca, "hex_colors", << >>) = << >>

\* an exception escapes one of the helpers: an argument that is None has no
\* .get (AttributeError), a malformed hex color does not parse (ValueError)
GenerateModelParametersRaises(sa, ca, ta) ==
    \/ sa = NoneValue
    \/ ca = NoneValue
    \/ ta = NoneValue
    \/ ProcessColorsRaises(ca)

\* generate_model_parameters (extract_features swallows its own errors and
\* its result is not used)
GenerateModelParameters(sa, ca, ta) ==
    IF GenerateModelParametersRaises(sa, ca, ta)
    THEN ErrorDefault
    ELSE [type |-> DetermineModelType(sa),
          dimensions |-> GenerateDimensions(sa),
          colors |-> ProcessColors(ca),
          materials |-> SuggestMaterials(ta),
          details |-> GenerateDetails(sa, ta)]

-----------------------------------------------------------------------------
(* ShapeDetector *)

\* A contour as find_contours/approximate_polygon/cv2 describe it:
\* points = len(contour), vertices = len(approx), area = cv2.contourArea,
\* compactness = 4*pi*area/perimeter^2 scaled by 100, width and height of
\* the bounding box of approx.
Contour(points, vertices, area, compactness, w, h) ==
    [points |-> points, vertices |-> vertices, area |-> area,
     compactness |-> compactness, width |-> w, height |-> h]

\* width / height if height > 0 else 0
AspectRatio(w, h) == IF h > 0 THEN Rat(w, h) ELSE Rat(0, 1)

IdentifyShapeCircleAtThreshold(vertices, compactness, w, h) ==
    IF compactness >= 80 THEN "Circle"
    ELSE IF vertices = 3 THEN "Triangle"
    ELSE IF vertices = 4
         THEN LET aspect_ratio == AspectRatio(w, h) IN
              IF RLess(Rat(9, 10), aspect_ratio) /\ RLess(aspect_ratio, Rat(11, 10))
              THEN "Square" ELSE "Rectangle"
    ELSE IF vertices = 5 THEN "Pentagon"
    ELSE IF vertices = 6 THEN "Hexagon"
    ELSE IF vertices > 6 /\ vertices < 15 THEN "Polygon"
    ELSE "Organic"

\* _identify_shape(contour, compactness): vertices = len(contour), w and h
\* the bounding box of contour
IdentifyShape(vertices, compactness, w, h) ==
    IF compactness > 80 THEN "Circle"
    ELSE IF vertices = 3 THEN "Triangle"
    ELSE IF vertices = 4
         THEN LET aspect_ratio == AspectRatio(w, h) IN
              IF RLess(Rat(9, 10), aspect_ratio) /\ RLess(aspect_ratio, Rat(11, 10))
              THEN "Square" ELSE "Rectangle"
    ELSE IF vertices = 5 THEN "Pentagon"
    ELSE IF vertices = 6 THEN "Hexagon"
    ELSE IF vertices > 6 /\ vertices < 15 THEN "Polygon"
    ELSE "Organic"

\* the working resolution of detect_shapes
WorkingSize == 512

\* the 'continue' tests of _analyze_contours
Retained(c) == c.points >= 5 /\ c.area >= 100

\* the record _analyze_contours appends for a retained contour
ShapeOf(c) ==
    [type |-> IdentifyShape(c.vertices, c.compactness, c.width, c.height),
     vertices |-> c.vertices,
     area |-> c.area,
     compactness |-> c.compactness,
     aspect_ratio |-> AspectRatio(c.width, c.height)]

RECURSIVE RetainedShapes(_)
RetainedShapes(cs) ==
    IF cs = << >> THEN << >>
    ELSE (IF Retained(Head(cs)) THEN <<ShapeOf(Head(cs))>> ELSE << >>)
             \o RetainedShapes(Tail(cs))

RECURSIVE SumArea(_)
SumArea(shapes) ==
    IF shapes = << >> THEN 0 ELSE Head(shapes).area + SumArea(Tail(shapes))

AnalyzeContoursHighAboveTen(cs, image_shape) ==
    LET shapes == RetainedShapes(cs)
        total_area == image_shape[1] * image_shape[2]
        covered_area == SumArea(shapes)
    IN [shapes |-> shapes,
        complexity |-> IF Len(shapes) < 3 THEN "Low"
                       ELSE IF Len(shapes) <= 10 THEN "Medium"
                       ELSE "High",
        distribution |-> IF 5 * covered_area < total_area THEN "Sparse"
                         ELSE IF 2 * covered_area < total_area THEN "Moderate"
                         ELSE "Dense"]

\* _analyze_contours(contours, image_shape)
AnalyzeContours(cs, image_shape) ==
    LET shapes == RetainedShapes(cs)
        total_area == image_shape[1] * image_shape[2]
        covered_area == SumArea(shapes)
    IN [shapes |-> shapes,
        complexity |-> IF Len(shapes) < 3 THEN "Low"
                       ELSE IF Len(shapes) < 10 THEN "Medium"
                       ELSE "High",
        distribution |-> IF 5 * covered_area < total_area THEN "Sparse"
                         ELSE IF 2 * covered_area < total_area THEN "Moderate"
                         ELSE "Dense"]

\* shape_counts: the types in order of first occurrence, with their counts
CountOf(types, t) == Cardinality({i \in 1..Len(types) : types[i] = t})

RECURSIVE FirstOccurrences(_)
FirstOccurrences(types) ==
    IF types = << >> THEN << >>
    ELSE LET rest == FirstOccurrences(SubSeq(types, 1, Len(types) - 1))
             last == types[Len(types)]
         IN IF InList(last, rest) THEN rest ELSE Append(rest, last)

\* sorted(shape_counts.items(), key=count, reverse=True): a stable sort, so
\* types of equal count stay in order of first occurrence
RECURSIVE SortByCount(_, _)
SortByCount(keys, types) ==
    IF keys = << >> THEN << >>
    ELSE LET best == CHOOSE i \in 1..Len(keys) :
                         /\ \A j \in 1..Len(keys) :
                                CountOf(types, keys[j]) <= CountOf(types, keys[i])
                         /\ \A j \in 1..(i - 1) :
                                CountOf(types, keys[j]) < CountOf(types, keys[i])
             rest == [j \in 1..(Len(keys) - 1) |-> IF j < best THEN keys[j] ELSE keys[j + 1]]
         IN <<keys[best]>> \o SortByCount(rest, types)

RECURSIVE KeepRepeated(_, _)
KeepRepeated(keys, types) ==
    IF keys = << >> THEN << >>
    ELSE (IF CountOf(types, Head(keys)) > 1 THEN <<Head(keys)>> ELSE << >>)
             \o KeepRepeated(Tail(keys), types)

DetermineDominantShapesAlwaysGeometric(shape_info, line_info, circle_info) ==
    LET shape_types == [i \in 1..Len(shape_info.shapes) |-> shape_info.shapes[i].type]
        sorted_shapes == SortByCount(FirstOccurrences(shape_types), shape_types)
        d1 == KeepRepeated(Take(sorted_shapes, 3), shape_types)
        d2 == IF line_info.has_straight_lines THEN Append(d1, "Geometric") ELSE d1
        d3 == IF circle_info.has_circles /\ ~InList("Circle", d2)
              THEN Append(d2, "Circular") ELSE d2
    IN IF d3 # << >> THEN d3
       ELSE IF shape_info.complexity = "High" THEN <<"Complex">>
       ELSE <<"Organic">>

\* _determine_dominant_shapes(shape_info, line_info, circle_info)
DetermineDominantShapes(shape_info, line_info, circle_info) ==
    LET shape_types == [i \in 1..Len(shape_info.shapes) |-> shape_info.shapes[i].type]
        sorted_shapes == SortByCount(FirstOccurrences(shape_types), shape_types)
        d1 == KeepRepeated(Take(sorted_shapes, 3), shape_types)
        d2 == IF line_info.has_straight_lines /\ d1 = << >>
              THEN Append(d1, "Geometric") ELSE d1
        d3 == IF circle_info.has_circles /\ ~InList("Circle", d2)
              THEN Append(d2, "Circular") ELSE d2
    IN IF d3 # << >> THEN d3
       ELSE IF shape_info.complexity = "High" THEN <<"Complex">>
       ELSE <<"Organic">>

\* the record detect_shapes returns from its except branch
ShapeSentinel ==
    [dominant_shapes |-> <<"Unknown">>,
     shape_count |-> 0,
     has_straight_lines |-> FALSE,
     has_curves |-> FALSE,
     shape_complexity |-> "Low",
     shape_distribution |-> "Unknown",
     shape_details |-> << >>]

DetectShapesRaisesOnlyUnloaded(loaded, step_fails) == ~loaded

\* the try block of detect_shapes is left through an exception: cv2.imread
\* returned None (ValueError), or one of the library calls after it raised
DetectShapesRaises(loaded, step_fails) == ~loaded \/ step_fails

DetectShapesAllDetails(loaded, cs, lines, circles) ==
    IF ~loaded THEN ShapeSentinel
    ELSE LET shape_info == AnalyzeContours(cs, <<WorkingSize, WorkingSize>>)
             line_info == [has_straight_lines |-> lines]
             circle_info == [has_circles |-> circles]
         IN [dominant_shapes |-> DetermineDominantShapes(shape_info, line_info, circle_info),
             shape_count |-> Len(shape_info.shapes),
             has_straight_lines |-> line_info.has_straight_lines,
             has_curves |-> circle_info.has_circles,
             shape_complexity |-> shape_info.complexity,
             shape_distribution |-> shape_info.distribution,
             shape_details |-> shape_info.shapes]

\* detect_shapes: loaded is FALSE when the try block is left through an
\* exception (cv2.imread returns None, or a later step raises); cs, lines
\* and circles are what find_contours, hough_line_peaks and HoughCircles
\* find in the image
DetectShapes(loaded, cs, lines, circles) ==
    IF ~loaded THEN ShapeSentinel
    ELSE LET shape_info == AnalyzeContours(cs, <<WorkingSize, WorkingSize>>)
             line_info == [has_straight_lines |-> lines]
             circle_info == [has_circles |-> circles]
         IN [dominant_shapes |-> DetermineDominantShapes(shape_info, line_info, circle_info),
             shape_count |-> Len(shape_info.shapes),
             has_straight_lines |-> line_info.has_straight_lines,
             has_curves |-> circle_info.has_circles,
             shape_complexity |-> shape_info.complexity,
             shape_distribution |-> shape_info.distribution,
             shape_details |-> Take(shape_info.shapes, 5)]

-----------------------------------------------------------------------------
(* ColorExtractor *)

\* the colors the pixels of the modelled images have
PixelColors == { <<255, 0, 0>>, <<0, 0, 255>>, <<10, 20, 30>> }

\* An image file as Image.open, img.resize and np.array hand it to
\* extract_colors: mode is "unreadable" when Image.open raises; otherwise
\* data lists the pixels, each the tuple of its channel values: (r, g, b) in
\* mode RGB, (r, g, b, a) in mode RGBA, (l, a) in mode LA (grey with alpha)
\* and (l) in mode L (grey), whose array has no third axis.
Channels(img) == Len(img.data[1])

\* img_array.shape[2] on a two-dimensional array raises IndexError
ShapeRaises(img) == Channels(img) = 1

\* img_array.reshape(-1, 3) raises ValueError unless the number of channel
\* values is a multiple of 3
ReshapeRaises(img) == (Len(img.data) * Channels(img)) % 3 # 0

\* img_array.reshape(-1, 3): the channel values in row-major order, three
\* to a row
Reshape(img) ==
    LET values == Concat(img.data)
    IN [i \in 1..(Len(values) \div 3) |->
           <<values[3 * i - 2], values[3 * i - 1], values[3 * i]>>]

\* pixels as handed to KMeans: for an array of 4 channels the first three
\* channels of the pixels whose fourth is above 0, otherwise the reshaped
\* rows
MaskedPixels(img) ==
    IF Channels(img) = 4
    THEN LET kept == SelectSeq(img.data, LAMBDA px : px[4] > 0)
         IN [i \in 1..Len(kept) |-> SubSeq(kept[i], 1, 3)]
    ELSE Reshape(img)

\* len(pixels)
OpaqueCount(img) == Len(MaskedPixels(img))

\* the distinct rows of pixels, and how often a row occurs
Present(img) == Range(MaskedPixels(img))
PixelCount(img, c) ==
    LET pixels == MaskedPixels(img)
    IN Cardinality({i \in 1..Len(pixels) : pixels[i] = c})

\* '#%02x%02x%02x' % (r, g, b)
Hex2(v) == <<HexLower[(v \div 16) + 1], HexLower[(v % 16) + 1]>>
FormatHex(rgb) == <<"#">> \o Hex2(rgb[1]) \o Hex2(rgb[2]) \o Hex2(rgb[3])

\* clusters are numbered 1..k here (labels 0..k-1 in numpy)
ClusterPixels(img, labels, j) ==
    LET RECURSIVE Sum(_)
        Sum(S) == IF S = {} THEN 0
                  ELSE LET c == CHOOSE x \in S : TRUE
                       IN (IF labels[c] = j THEN PixelCount(img, c) ELSE 0) + Sum(S \ {c})
    IN Sum(DOMAIN labels)

\* sum over the pixels of cluster j of channel ch
ClusterSum(img, labels, j, ch) ==
    LET RECURSIVE Sum(_)
        Sum(S) == IF S = {} THEN 0
                  ELSE LET c == CHOOSE x \in S : TRUE
                       IN (IF labels[c] = j THEN PixelCount(img, c) * c[ch] ELSE 0)
                              + Sum(S \ {c})
    IN Sum(DOMAIN labels)

\* squared distance of color c to the mean of cluster j, times N(j)^2
ScaledDist2(img, labels, c, j) ==
    LET n == ClusterPixels(img, labels, j)
        D(ch) == c[ch] * n - ClusterSum(img, labels, j, ch)
    IN D(1) * D(1) + D(2) * D(2) + D(3) * D(3)

\* no pixel is nearer to another cluster's center than to its own
LloydConverged(img, labels, k) ==
    \A c \in DOMAIN labels : \A j \in 1..k :
        ScaledDist2(img, labels, c, labels[c])
                * ClusterPixels(img, labels, j) * ClusterPixels(img, labels, j)
            <= ScaledDist2(img, labels, c, j)
                * ClusterPixels(img, labels, labels[c]) * ClusterPixels(img, labels, labels[c])

\* KMeans(n_clusters=k, n_init=10).fit(pixels) raises ValueError when there
\* are fewer samples than clusters
KMeansRaises(img, k) == OpaqueCount(img) < k

\* What fit can leave in cluster_centers_.astype(int) and labels_.  No
\* random_state is given, so the numbering of the clusters (and, for more
\* distinct colors than clusters, which converged partition is found) differs
\* from run to run.  With at least k distinct colors every cluster is
\* non-empty and its center is the mean of its pixels; with fewer, the k
\* centers are the distinct colors, some repeated, and a pixel gets the first
\* of the equal centers.
KMeansOutcomes(img, k) ==
    LET P == Present(img) IN
    IF Cardinality(P) >= k
    THEN { [centers |-> [j \in 1..k |->
                            [ch \in 1..3 |-> ClusterSum(img, labels, j, ch)
                                                 \div ClusterPixels(img, labels, j)]],
            labels |-> labels] :
            labels \in { l \in [P -> 1..k] :
                            /\ \A j \in 1..k : \E c \in P : l[c] = j
                            /\ LloydConverged(img, l, k) } }
    ELSE { [centers |-> centers,
            labels |-> [c \in P |-> CHOOSE j \in 1..k :
                                        /\ centers[j] = c
                                        /\ \A i \in 1..(j - 1) : centers[i] # c]] :
            centers \in { cs \in [1..k -> P] : \A c \in P : \E j \in 1..k : cs[j] = c } }

\* np.bincount(labels): one count per label up to the largest label used
Bincount(img, labels) ==
    LET top == CHOOSE j \in {labels[c] : c \in DOMAIN labels} :
                   \A c \in DOMAIN labels : labels[c] <= j
    IN [j \in 1..top |-> ClusterPixels(img, labels, j)]

\* np.argsort(color_percentages)[::-1]: the indices by descending
\* percentage; the order of equal percentages is left to the sort
ArgsortDescending(pct) ==
    { order \in [1..Len(pct) -> 1..Len(pct)] :
        /\ \A a, b \in 1..Len(pct) : order[a] = order[b] => a = b
        /\ \A a \in 1..(Len(pct) - 1) : ~RLess(pct[order[a]], pct[order[a + 1]]) }

\* color_counts / len(labels) * 100
ColorPercentages(img, outcome) ==
    LET color_counts == Bincount(img, outcome.labels)
        n == OpaqueCount(img)
    IN [j \in 1..Len(color_counts) |-> Rat(color_counts[j] * 100, n)]

\* the try block of extract_colors is left through an exception
ExtractColorsRaises(img, k) ==
    \/ img.mode = "unreadable"
    \/ ReshapeRaises(img)
    \/ ShapeRaises(img)
    \/ KMeansRaises(img, k)

\* extract_colors: the pair (sorted_hex_colors, color_info); outcome is the
\* clustering found, order the result of the argsort
ExtractColors(img, k, outcome, order) ==
    IF ExtractColorsRaises(img, k)
    THEN <<<< >>, << >>>>
    ELSE LET colors == outcome.centers
             color_percentages == ColorPercentages(img, outcome)
             hex_colors == [j \in 1..Len(colors) |-> FormatHex(colors[j])]
             color_info == [hex |-> hex_colors, rgb |-> colors,
                            percentages |-> color_percentages]
         IN <<[i \in 1..Len(order) |-> hex_colors[order[i]]], color_info>>

\* the record get_color_palette returns
GetColorPalette(img, k, outcome, order) ==
    LET r == ExtractColors(img, k, outcome, order)
        hex_colors == r[1]
        color_info == r[2]
    IN [hex_colors |-> hex_colors,
        rgb_values |-> Get(color_info, "rgb", << >>),
        percentages |-> Get(color_info, "percentages", << >>)]

\* the clusterings and sort orders one call of extract_colors can see
ExtractionChoices(img, k) ==
    IF ExtractColorsRaises(img, k)
    THEN { [outcome |-> NotYet, order |-> << >>] }
    ELSE UNION { { [outcome |-> o, order |-> ord] :
                     ord \in ArgsortDescending(ColorPercentages(img, o)) } :
                 o \in KMeansOutcomes(img, k) }

-----------------------------------------------------------------------------
(* Bounded inputs of generate_model_parameters *)

\* longest dominant_shapes list handed to the model generator
MaxDomLen == 2


\* every label _identify_shape and _determine_dominant_shapes can produce,
\* and the 'Unknown' of the sentinel profile
ShapeTypes ==
    {"Circle", "Triangle", "Square", "Rectangle", "Pentagon", "Hexagon",
     "Polygon", "Organic"}
DominantLabels == ShapeTypes \cup {"Geometric", "Circular", "Complex", "Unknown"}

ShapeRecord(type, vertices, area, compactness, w, h) ==
    [type |-> type, vertices |-> vertices, area |-> area,
     compactness |-> compactness,
     aspect_ratio |-> IF h > 0 THEN Rat(w, h) ELSE Rat(0, 1)]

ShapeDetailInputs ==
    { [shape_complexity |-> "Low", shape_details |-> << >>],
      [shape_complexity |-> "Medium",
       shape_details |-> << ShapeRecord("Circle", 20, 400, 95, 20, 20),
                            ShapeRecord("Rectangle", 4, 10000, 60, 150, 100) >>],
      [shape_complexity |-> "High",
       shape_details |-> << ShapeRecord("Square", 4, 900, 78, 30, 30) >>] }

ShapeAnalysisInputs ==
    {NoneValue}
    \cup ShapeDetailInputs
    \cup { [dominant_shapes |-> ds,
            shape_complexity |-> sd.shape_complexity,
            shape_details |-> sd.shape_details] :
            ds \in SeqsUpTo(DominantLabels, MaxDomLen), sd \in ShapeDetailInputs }

EmptyPalette == [hex_colors |-> << >>, rgb_values |-> << >>, percentages |-> << >>]

ColorAnalysisInputs ==
    { NoneValue,
      EmptyPalette,
      [hex_colors |-> << <<"#","0","0","0","0","f","e">>, <<"#","f","f","0","0","0","0">> >>,
       rgb_values |-> << <<0, 0, 254>>, <<255, 0, 0>> >>,
       percentages |-> << Rat(6000, 100), Rat(4000, 100) >>],
      [hex_colors |-> << <<"#","z","z","0","0","0","0">> >>,
       rgb_values |-> << >>, percentages |-> << >>] }

TextureRecord(tt, pt) ==
    [texture_type |-> tt, roughness |-> 0, uniformity |-> 0, contrast |-> 0,
     directionality |-> 0, pattern_type |-> pt, features |-> << >>]

\* the record analyze_texture returns from its except branch
TextureSentinel == TextureRecord("unknown", "unknown")

TextureAnalysisInputs ==
    { NoneValue,
      TextureSentinel,
      [TextureRecord("Smooth", "Geometric") EXCEPT !.roughness = 500, !.uniformity = 60],
      [TextureRecord("Rough", "Organic") EXCEPT !.roughness = 4000, !.contrast = 40] }

-----------------------------------------------------------------------------
(* TextureAnalyzer; roughness, uniformity, contrast, directionality, the LBP
   entropy and the HOG mean and standard deviation are scaled by 100 *)

DetermineTextureTypeRoughAtThreshold(roughness, uniformity, contrast, directionality) ==
    IF roughness < 1000
    THEN (IF uniformity > 50 THEN "Smooth" ELSE "Matte")
    ELSE IF roughness < 3000
    THEN (IF directionality > 50 THEN "Striated" ELSE "Textured")
    ELSE (IF contrast >= 30 THEN "Rough" ELSE "Coarse")

\* _determine_texture_type
DetermineTextureType(roughness, uniformity, contrast, directionality) ==
    IF roughness < 1000
    THEN (IF uniformity > 50 THEN "Smooth" ELSE "Matte")
    ELSE IF roughness < 3000
    THEN (IF directionality > 50 THEN "Striated" ELSE "Textured")
    ELSE (IF contrast > 30 THEN "Rough" ELSE "Coarse")

DeterminePatternTypeGeometricInLastBand(lbp_entropy, hog_mean, hog_std) ==
    IF lbp_entropy < 300 THEN "Solid"
    ELSE IF lbp_entropy < 400
    THEN (IF hog_std < 10 THEN "Uniform" ELSE "Gradient")
    ELSE IF lbp_entropy <= 500
    THEN (IF hog_mean > 20 THEN "Geometric" ELSE "Organic")
    ELSE (IF hog_std > 20 THEN "Complex" ELSE "Random")

\* _determine_pattern_type, given the entropy of lbp_hist and the mean and
\* standard deviation of hog_features
DeterminePatternType(lbp_entropy, hog_mean, hog_std) ==
    IF lbp_entropy < 300 THEN "Solid"
    ELSE IF lbp_entropy < 400
    THEN (IF hog_std < 10 THEN "Uniform" ELSE "Gradient")
    ELSE IF lbp_entropy < 500
    THEN (IF hog_mean > 20 THEN "Geometric" ELSE "Organic")
    ELSE (IF hog_std > 20 THEN "Complex" ELSE "Random")

AnalyzeTextureRaisesOnlyUnloaded(loaded, step_fails) == ~loaded

\* the try block of analyze_texture is left through an exception: cv2.imread
\* returned None (ValueError), or one of the library calls after it raised
AnalyzeTextureRaises(loaded, step_fails) == ~loaded \/ step_fails

\* analyze_texture: loaded is FALSE when cv2.imread returns None; m holds
\* the descriptors computed from the image (directionality is the standard
\* deviation of the HOG features)
AnalyzeTexture(loaded, m) ==
    IF ~loaded THEN TextureSentinel
    ELSE [texture_type |-> DetermineTextureType(m.roughness, m.uniformity,
                                                m.contrast, m.hog_std),
          roughness |-> m.roughness,
          uniformity |-> m.uniformity,
          contrast |-> m.contrast,
          directionality |-> m.hog_std,
          pattern_type |-> DeterminePatternType(m.lbp_entropy, m.hog_mean, m.hog_std),
          features |-> m.features]

-----------------------------------------------------------------------------
(* Specification of the model generator alone *)

AnalyzerIdle ==
    /\ disk = << >>
    /\ files = {}
    /\ run = << >>

HelperIdle == call = NotYet

\* DesignManager.__init__ without a database file: no project, and no
\* attribute image_recognition_service
DesignIdle ==
    /\ design_projects = << >>
    /\ image_recognition_service = "unset"
    /\ uuids = 0
    /\ clock = 0

ColorIdle ==
    /\ image = NotYet
    /\ n_colors = 5
    /\ kmeans = NotYet
    /\ palette = NotYet

ShapeIdle ==
    /\ readable = TRUE
    /\ contours = << >>
    /\ has_lines = FALSE
    /\ has_circles = FALSE
    /\ ident = NotYet

InitModel ==
    /\ shape_analysis \in ShapeAnalysisInputs
    /\ color_analysis \in ColorAnalysisInputs
    /\ texture_analysis \in TextureAnalysisInputs
    /\ model_params = NotYet
    /\ ShapeIdle
    /\ ColorIdle
    /\ AnalyzerIdle
    /\ HelperIdle
    /\ DesignIdle

\* model_generator.generate_model_parameters(image_path, shape_analysis,
\* color_analysis, texture_analysis)
GenerateModelParametersCall ==
    /\ model_params = NotYet
    /\ shape_analysis # NotYet
    /\ model_params' =
           GenerateModelParameters(shape_analysis, color_analysis, texture_analysis)
    /\ UNCHANGED <<shape_analysis, color_analysis, texture_analysis, shapeVars, colorVars,
                   analyzerVars, helperVars, designVars>>

NextModel == GenerateModelParametersCall

SpecModel == InitModel /\ [][NextModel]_vars

-----------------------------------------------------------------------------
(* Claims about the model generator *)

ModelTypes == {"cylindrical", "box", "pyramid", "polyhedron", "organic", "generic"}

ModelCallDone == model_params # NotYet
ModelCallRaised ==
    GenerateModelParametersRaises(shape_analysis, color_analysis, texture_analysis)

\* C3: when generate_model_parameters hits an internal error it returns the
\* default of type 'generic' with unit-cube dimensions, one gray color,
\* ['Plastic'] and no details, so that the type of every returned record is
\* one of cylindrical, box, pyramid, polyhedron, organic, generic.
C3_ErrorDefaultIsGeneric ==
    ModelCallDone =>
        /\ ModelCallRaised =>
              /\ model_params.type = "generic"
              /\ model_params.dimensions = [width |-> One, height |-> One, depth |-> One]
              /\ Len(model_params.colors) = 1
              /\ model_params.colors[1].name = "Gray"
              /\ model_params.materials = <<"Plastic">>
              /\ model_params.details = << >>
        /\ model_params.type \in ModelTypes

\* the precedence of C5, stated on the set of labels
C5_TypeOfLabels(S) ==
    IF "Circle" \in S \/ "Circular" \in S THEN "cylindrical"
    ELSE IF "Rectangle" \in S \/ "Square" \in S THEN "box"
    ELSE IF "Triangle" \in S THEN "pyramid"
    ELSE IF "Polygon" \in S THEN "polyhedron"
    ELSE IF "Organic" \in S THEN "organic"
    ELSE "generic"

Reorderings(s) ==
    { [i \in 1..Len(s) |-> s[p[i]]] :
        p \in {q \in [1..Len(s) -> 1..Len(s)] : \A i, j \in 1..Len(s) : q[i] = q[j] => i = j} }

\* C5: the model type is decided by the first matching rule of the fixed
\* precedence Circle/Circular, Rectangle/Square, Triangle, Polygon, Organic,
\* else generic, whatever the order of the labels in dominant_shapes.
C5_ModelTypePrecedence ==
    (ModelCallDone /\ ~ModelCallRaised /\ "dominant_shapes" \in DOMAIN shape_analysis) =>
        LET ds == shape_analysis.dominant_shapes IN
        /\ model_params.type = C5_TypeOfLabels(Range(ds))
        /\ \A perm \in Reorderings(ds) :
               DetermineModelType([shape_analysis EXCEPT !.dominant_shapes = perm])
                   = model_params.type
        /\ ds = <<"Circle">> => model_params.type = "cylindrical"
        /\ ds = <<"Rectangle">> => model_params.type = "box"

\* a list whose later label outranks its first one has been mapped
C5_Witness ==
    /\ ModelCallDone
    /\ ~ModelCallRaised
    /\ "dominant_shapes" \in DOMAIN shape_analysis
    /\ shape_analysis.dominant_shapes = <<"Organic", "Circular">>
    /\ model_params.type = "cylindrical"

-----------------------------------------------------------------------------
(* Specification of the shape detector, alone and composed with the model
   generator *)

\* most contours find_contours returns for one image
MaxContours == 3

\* largest vertex count handed to _identify_shape
MaxVertices == 16

\* the contours the modelled images are made of
ContourKinds ==
    { Contour(4, 4, 400, 60, 20, 20),         \* fewer than 5 points
      Contour(12, 4, 99, 60, 11, 9),          \* area below 100
      Contour(40, 20, 400, 90, 20, 20),       \* round
      Contour(60, 4, 15000, 75, 150, 100),    \* oblong quadrilateral
      Contour(30, 4, 900, 78, 30, 30),        \* square quadrilateral
      Contour(24, 3, 100, 60, 20, 10) }       \* triangle of area exactly 100

CompactnessInputs == {0, 50, 79, 80, 81, 100}
BoxInputs == {0, 9, 10, 11, 20}

InitShape ==
    /\ readable \in BOOLEAN
    /\ contours \in SeqsUpTo(ContourKinds, MaxContours)
    /\ has_lines \in BOOLEAN
    /\ has_circles \in BOOLEAN
    /\ (~readable => contours = << >> /\ ~has_lines /\ ~has_circles)
    /\ ident = NotYet
    /\ shape_analysis = NotYet
    /\ color_analysis = EmptyPalette
    /\ texture_analysis = TextureSentinel
    /\ model_params = NotYet
    /\ ColorIdle
    /\ AnalyzerIdle
    /\ HelperIdle
    /\ DesignIdle

\* one call of _identify_shape
IdentifyShapeCall ==
    /\ ident = NotYet
    /\ \E v \in 0..MaxVertices, c \in CompactnessInputs, w \in BoxInputs, h \in BoxInputs :
           ident' = [vertices |-> v, compactness |-> c, width |-> w, height |-> h,
                     shape_type |-> IdentifyShape(v, c, w, h)]
    /\ UNCHANGED <<modelVars, readable, contours, has_lines, has_circles, colorVars,
                   analyzerVars, helperVars, designVars>>

\* shape_detector.detect_shapes(image_path)
DetectShapesCall ==
    /\ shape_analysis = NotYet
    /\ \E step_fails \in BOOLEAN :
           /\ shape_analysis' = DetectShapes(~DetectShapesRaises(readable, step_fails),
                                             contours, has_lines, has_circles)
           /\ call' = [method |-> "detect_shapes", step_fails |-> step_fails]
    /\ UNCHANGED <<color_analysis, texture_analysis, model_params, shapeVars, colorVars,
                   analyzerVars, designVars>>

NextShape ==
    \/ DetectShapesCall
    \/ GenerateModelParametersCall

SpecShape == InitShape /\ [][NextShape]_vars

\* _identify_shape alone
InitIdentify ==
    /\ ShapeIdle
    /\ ColorIdle
    /\ AnalyzerIdle
    /\ HelperIdle
    /\ DesignIdle
    /\ shape_analysis = NotYet
    /\ color_analysis = EmptyPalette
    /\ texture_analysis = TextureSentinel
    /\ model_params = NotYet

NextIdentify == IdentifyShapeCall

SpecIdentify == InitIdentify /\ [][NextIdentify]_vars

-----------------------------------------------------------------------------
(* Claims about the shape detector *)

\* C10: compactness > 0.8 gives Circle whatever the vertex count; otherwise
\* 3 vertices give Triangle, 4 give Square when the aspect ratio is strictly
\* between 0.9 and 1.1 and Rectangle otherwise, 5 give Pentagon, 6 Hexagon,
\* 7 to 14 Polygon, and any other count Organic.
C10_IdentifyShapeRule ==
    ident # NotYet =>
        LET v == ident.vertices
            t == ident.shape_type
            round == ident.compactness > 80
            \* 0.9 < width / height < 1.1, the ratio being 0 when height is 0
            squarish == /\ ident.height > 0
                        /\ 9 * ident.height < 10 * ident.width
                        /\ 10 * ident.width < 11 * ident.height
        IN /\ round => t = "Circle"
           /\ (~round /\ v = 3) => t = "Triangle"
           /\ (~round /\ v = 4 /\ squarish) => t = "Square"
           /\ (~round /\ v = 4 /\ ~squarish) => t = "Rectangle"
           /\ (~round /\ v = 5) => t = "Pentagon"
           /\ (~round /\ v = 6) => t = "Hexagon"
           /\ (~round /\ v >= 7 /\ v <= 14) => t = "Polygon"
           /\ (~round /\ (v < 3 \/ v >= 15)) => t = "Organic"

\* a contour of compactness exactly 0.8 and 15 vertices was classified
C10_Witness ==
    /\ ident # NotYet
    /\ ident.compactness = 80
    /\ ident.vertices = 15
    /\ ident.shape_type = "Organic"

ShapeStageDone == shape_analysis # NotYet
NoCircleLabel ==
    /\ ~InList("Circle", shape_analysis.dominant_shapes)
    /\ ~InList("Circular", shape_analysis.dominant_shapes)

\* C6 as stated: whenever the shape stage reports dominant_shapes containing
\* 'Rectangle' or 'Geometric' and no 'Circle' or 'Circular', the model type
\* is 'box'.
C6_RectangleOrGeometricIsBox ==
    (ShapeStageDone /\ ModelCallDone) =>
        ((/\ \/ InList("Rectangle", shape_analysis.dominant_shapes)
             \/ InList("Geometric", shape_analysis.dominant_shapes)
          /\ NoCircleLabel)
            => model_params.type = "box")

\* C6 amended: with no 'Circle' or 'Circular' label, dominant_shapes
\* containing 'Rectangle' gives model type 'box', and dominant_shapes
\* containing 'Geometric' is the list ['Geometric'] and gives 'generic'.
C6_RectangleIsBoxGeometricIsGeneric ==
    (ShapeStageDone /\ ModelCallDone /\ NoCircleLabel) =>
        /\ InList("Rectangle", shape_analysis.dominant_shapes)
              => model_params.type = "box"
        /\ InList("Geometric", shape_analysis.dominant_shapes)
              => /\ shape_analysis.dominant_shapes = <<"Geometric">>
                 /\ model_params.type = "generic"

\* an image of two oblong quadrilaterals and straight lines went through
\* both stages
C6_Witness ==
    /\ ShapeStageDone
    /\ ModelCallDone
    /\ has_lines
    /\ shape_analysis.dominant_shapes = <<"Rectangle">>
    /\ shape_analysis.shape_count >= 2
    /\ model_params.type = "box"

-----------------------------------------------------------------------------
(* ImageAnalyzer *)

\* the invocations of analyze_image that may overlap
Runs == {1, 2}

\* palette size of the modelled analyzer's ColorExtractor (the code
\* constructs ColorExtractor(n_colors=5); the model keeps the palette small)
AnalyzerNColors == 2

\* self.output_dir
OutputDir == "./output"

\* image paths, held split at the last separator: os.path.basename is base
ImagePath(dir, base) == [dir |-> dir, base |-> base]
PathA == ImagePath("a", <<"c", ".", "p", "n", "g">>)
PathB == ImagePath("b", <<"c", ".", "j", "p", "g">>)
PathC == ImagePath("a", <<"d", ".", "p", "n", "g">>)
Paths == {PathA, PathB, PathC}

\* os.path.splitext: split at the last dot unless only dots precede it
SplitExt(base) ==
    LET dots == {i \in 1..Len(base) :
                    base[i] = "." /\ \E j \in 1..(i - 1) : base[j] # "."}
    IN IF dots = {} THEN <<base, << >>>>
       ELSE LET i == CHOOSE d \in dots : \A e \in dots : e <= d
            IN <<SubSeq(base, 1, i - 1), SubSeq(base, i, Len(base))>>

\* file_name of analyze_image
FileName(path) == SplitExt(path.base)[1]

ImageOutputDirShared(output_dir, path) == [parent |-> output_dir, name |-> << >>]

\* image_output_dir = os.path.join(self.output_dir, file_name)
ImageOutputDir(output_dir, path) == [parent |-> output_dir, name |-> FileName(path)]

PaletteSuffix == <<"_", "p", "a", "l", "e", "t", "t", "e", ".", "p", "n", "g">>
TextureSuffix == <<"_", "t", "e", "x", "t", "u", "r", "e", ".", "p", "n", "g">>
ShapesSuffix == <<"_", "s", "h", "a", "p", "e", "s", ".", "p", "n", "g">>
ModelSuffix == <<"_", "m", "o", "d", "e", "l", ".", "j", "s", "o", "n">>
AnalysisSuffix == <<"_", "a", "n", "a", "l", "y", "s", "i", "s", ".", "j", "s", "o", "n">>

\* os.path.join(output_dir, f"{file_name}<suffix>")
Artifact(dir, file_name, suffix) == [dir |-> dir, name |-> file_name \o suffix]

PaletteVisualizationAlsoEmpty(hex_colors, save_visualization, output_dir, file_name, savefig_ok) ==
    IF save_visualization /\ output_dir # NoneValue /\ savefig_ok
    THEN {Artifact(output_dir, file_name, PaletteSuffix)}
    ELSE {}

\* get_color_palette, the visualization: the files visualize_colors saves
\* when save_visualization, hex_colors and output_dir are all truthy;
\* visualize_colors catches its own errors and then saves nothing
PaletteVisualization(hex_colors, save_visualization, output_dir, file_name, savefig_ok) ==
    IF save_visualization /\ hex_colors # << >> /\ output_dir # NoneValue /\ savefig_ok
    THEN {Artifact(output_dir, file_name, PaletteSuffix)}
    ELSE {}

\* str.endswith
EndsWith(str, tail) ==
    /\ Len(str) >= Len(tail)
    /\ SubSeq(str, Len(str) - Len(tail) + 1, Len(str)) = tail

\* _get_visualization_files(directory); the order of os.listdir is not
\* kept, the result is the set of the listed paths
GetVisualizationFiles(fs, directory) ==
    { f \in fs :
        /\ f.dir = directory
        /\ \/ EndsWith(f.name, <<".", "p", "n", "g">>)
           \/ EndsWith(f.name, <<".", "j", "p", "g">>)
           \/ EndsWith(f.name, <<".", "j", "p", "e", "g">>) }

\* _generate_color_suggestions, one turn of the loop: color.lstrip('#'),
\* int(color[i:i+2], 16) for i in (0, 2, 4), 255 - channel, and
\* f'#{comp_r:02x}{comp_g:02x}{comp_b:02x}'
ComplementaryColor(color) ==
    LET rgb == ParseHex(LStripHash(color))
    IN FormatHex(<<255 - rgb[1], 255 - rgb[2], 255 - rgb[3]>>)

\* dominant_colors[:3] if dominant_colors else ['#CCCCCC']
TopColors(dominant_colors) ==
    IF dominant_colors # << >> THEN Take(dominant_colors, 3)
    ELSE << <<"#", "C", "C", "C", "C", "C", "C">> >>

\* _generate_color_suggestions raises ValueError on a malformed hex string
\* among the top colors
GenerateColorSuggestionsRaises(dominant_colors) ==
    LET top_colors == TopColors(dominant_colors)
    IN \E i \in 1..Len(top_colors) : ~ParseHexOk(LStripHash(top_colors[i]))

GenerateColorSuggestionsUntruncated(dominant_colors) ==
    LET top_colors == IF dominant_colors # << >> THEN dominant_colors
                      ELSE << <<"#", "C", "C", "C", "C", "C", "C">> >>
        complementary_colors ==
            [i \in 1..Len(top_colors) |-> ComplementaryColor(top_colors[i])]
    IN [primary_palette |-> top_colors,
        complementary_palette |-> complementary_colors,
        recommended_accent |-> IF complementary_colors # << >>
                               THEN complementary_colors[1]
                               ELSE <<"#", "F", "F", "5", "7", "2", "2">>]

\* _generate_color_suggestions(dominant_colors)
GenerateColorSuggestions(dominant_colors) ==
    LET top_colors == TopColors(dominant_colors)
        complementary_colors ==
            [i \in 1..Len(top_colors) |-> ComplementaryColor(top_colors[i])]
    IN [primary_palette |-> top_colors,
        complementary_palette |-> complementary_colors,
        recommended_accent |-> IF complementary_colors # << >>
                               THEN complementary_colors[1]
                               ELSE <<"#", "F", "F", "5", "7", "2", "2">>]

\* What an image file holds, as each library reads it: kind "missing" (no
\* such file), "garbage" (a file that is empty or not an image) or "image".
MissingFile == [kind |-> "missing"]
GarbageFile == [kind |-> "garbage"]
PictureFile ==
    [kind |-> "image",
     color |-> [mode |-> "RGB",
                data |-> << <<255, 0, 0>>, <<0, 0, 255>>, <<0, 0, 255>> >>],
     contours |-> << Contour(60, 4, 15000, 75, 150, 100),
                     Contour(60, 4, 15000, 75, 150, 100) >>,
     has_lines |-> TRUE,
     has_circles |-> FALSE,
     texture |-> [roughness |-> 500, uniformity |-> 60, contrast |-> 10,
                  hog_mean |-> 10, hog_std |-> 5, lbp_entropy |-> 250,
                  features |-> <<"lbp_histogram", "hog_features">>]]

FileKinds == {MissingFile, GarbageFile, PictureFile}

\* os.path.exists
Exists(d, path) == d[path].kind # "missing"

\* Image.open / cv2.imread succeed
Loads(d, path) == d[path].kind = "image"

ColorImageOf(d, path) ==
    IF Loads(d, path) THEN d[path].color
    ELSE [mode |-> "unreadable", data |-> << >>]

\* the except clause of analyze_image: 'except Exception' catches every
\* exception the body raises
HandlesOnlyNotFound(exc) == exc = "FileNotFoundError"

Handles(exc) == exc \in {"FileNotFoundError", "OSError"}

\* the record analyze_image returns from its except branch
FailedResult(exc, message, path) ==
    [error |-> message, image_path |-> path, status |-> "failed"]

StageAfterModelBeforeShape(stage) ==
    CASE stage = "begin" -> "color"
      [] stage = "color" -> "texture"
      [] stage = "texture" -> "model"
      [] stage = "model" -> "shape"
      [] stage = "shape" -> "assemble"
      [] stage = "assemble" -> "done"

\* the order of the statements of analyze_image
StageAfter(stage) ==
    CASE stage = "begin" -> "color"
      [] stage = "color" -> "texture"
      [] stage = "texture" -> "shape"
      [] stage = "shape" -> "model"
      [] stage = "model" -> "assemble"
      [] stage = "assemble" -> "done"

\* the locals of an invocation that has not been made
IdleRun ==
    [pc |-> "idle", image_path |-> NotYet, generate_visualizations |-> TRUE,
     image_output_dir |-> NotYet, file_name |-> << >>,
     color_palette |-> NotYet, texture_analysis |-> NotYet,
     shape_analysis |-> NotYet, model_params |-> NotYet,
     result |-> NotYet,
     \* history: the calls made, with arguments and return values, and the
     \* artifact files written
     trace |-> << >>, written |-> {},
     \* the invocations that had returned when this one was made
     began_after |-> {}]

Event(stage, args, returned) == [stage |-> stage, args |-> args, returned |-> returned]

\* leave the try block through an exception
Raise(r, exc, message) ==
    IF Handles(exc)
    THEN [r EXCEPT !.pc = "done",
                   !.result = FailedResult(exc, message, r.image_path)]
    ELSE [r EXCEPT !.pc = "escaped"]

InitAnalyzer ==
    /\ disk \in {d \in [Paths -> FileKinds] : d[PathC] = PictureFile}
    /\ files = {}
    /\ run = [p \in Runs |-> IdleRun]
    /\ n_colors = AnalyzerNColors
    /\ image = NotYet
    /\ kmeans = NotYet
    /\ palette = NotYet
    /\ ShapeIdle
    /\ HelperIdle
    /\ DesignIdle
    /\ shape_analysis = NotYet
    /\ color_analysis = NotYet
    /\ texture_analysis = NotYet
    /\ model_params = NotYet

AnalyzerFrame == UNCHANGED <<disk, modelVars, shapeVars, colorVars, helperVars, designVars>>

\* analyze_image(image_path, generate_visualizations) up to the first stage:
\* the existence check and the creation of the output directory, which the
\* file system may refuse (OSError)
AnalyzeBegin(p) ==
    /\ run[p].pc = "idle"
    /\ \E path \in Paths, viz \in BOOLEAN, makedirs_ok \in BOOLEAN :
           LET r == [run[p] EXCEPT !.pc = "begin", !.image_path = path,
                                   !.generate_visualizations = viz,
                                   !.began_after = {q \in Runs : run[q].pc = "done"}]
           IN run' = [run EXCEPT ![p] =
                  IF ~Exists(disk, path)
                  THEN Raise(r, "FileNotFoundError", <<"Image file not found: ", path>>)
                  ELSE IF ~makedirs_ok
                  THEN Raise(r, "OSError", <<"makedirs: ", ImageOutputDir(OutputDir, path)>>)
                  ELSE [r EXCEPT !.pc = StageAfter("begin"),
                                 !.file_name = FileName(path),
                                 !.image_output_dir = ImageOutputDir(OutputDir, path)]]
    /\ UNCHANGED files
    /\ AnalyzerFrame

\* color_extractor.get_color_palette(image_path, save_visualization,
\* output_dir), which saves <file_name>_palette.png when asked to and the
\* palette is not empty
ColorStage(p) ==
    /\ run[p].pc = "color"
    /\ LET r == run[p]
           img == ColorImageOf(disk, r.image_path)
       IN \E ch \in ExtractionChoices(img, n_colors) :
              LET pal == GetColorPalette(img, n_colors, ch.outcome, ch.order)
                  out == PaletteVisualization(pal.hex_colors, r.generate_visualizations,
                                              r.image_output_dir, FileName(r.image_path),
                                              TRUE)
              IN /\ run' = [run EXCEPT ![p] =
                        [r EXCEPT !.pc = StageAfter("color"),
                                  !.color_palette = pal,
                                  !.trace = Append(@, Event("color", <<r.image_path>>, pal)),
                                  !.written = @ \cup out]]
                 /\ files' = files \cup out
    /\ AnalyzerFrame

\* texture_analyzer.analyze_texture(image_path) and, when asked to,
\* save_texture_visualization, which writes nothing for an unreadable image
TextureStage(p) ==
    /\ run[p].pc = "texture"
    /\ LET r == run[p]
           loaded == Loads(disk, r.image_path)
           ta == AnalyzeTexture(loaded, IF loaded THEN disk[r.image_path].texture ELSE << >>)
           out == IF r.generate_visualizations /\ loaded
                  THEN {Artifact(r.image_output_dir, FileName(r.image_path), TextureSuffix)}
                  ELSE {}
       IN /\ run' = [run EXCEPT ![p] =
                 [r EXCEPT !.pc = StageAfter("texture"),
                           !.texture_analysis = ta,
                           !.trace = Append(@, Event("texture", <<r.image_path>>, ta)),
                           !.written = @ \cup out]]
          /\ files' = files \cup out
    /\ AnalyzerFrame

\* shape_detector.detect_shapes(image_path) and, when asked to,
\* save_shape_visualization
ShapeStage(p) ==
    /\ run[p].pc = "shape"
    /\ LET r == run[p]
           loaded == Loads(disk, r.image_path)
           f == disk[r.image_path]
           sa == IF loaded
                 THEN DetectShapes(TRUE, f.contours, f.has_lines, f.has_circles)
                 ELSE DetectShapes(FALSE, << >>, FALSE, FALSE)
           out == IF r.generate_visualizations /\ loaded
                  THEN {Artifact(r.image_output_dir, FileName(r.image_path), ShapesSuffix)}
                  ELSE {}
       IN /\ run' = [run EXCEPT ![p] =
                 [r EXCEPT !.pc = StageAfter("shape"),
                           !.shape_analysis = sa,
                           !.trace = Append(@, Event("shape", <<r.image_path>>, sa)),
                           !.written = @ \cup out]]
          /\ files' = files \cup out
    /\ AnalyzerFrame

\* model_generator.generate_model_parameters(image_path, shape_analysis,
\* color_palette, texture_analysis) and generate_model_file
ModelStage(p) ==
    /\ run[p].pc = "model"
    /\ LET r == run[p]
           mp == GenerateModelParameters(r.shape_analysis, r.color_palette,
                                         r.texture_analysis)
           out == {Artifact(r.image_output_dir, r.file_name, ModelSuffix)}
       IN /\ run' = [run EXCEPT ![p] =
                 [r EXCEPT !.pc = StageAfter("model"),
                           !.model_params = mp,
                           !.trace = Append(@, Event("model",
                                         <<r.image_path, r.shape_analysis,
                                           r.color_palette, r.texture_analysis>>, mp)),
                           !.written = @ \cup out]]
          /\ files' = files \cup out
    /\ AnalyzerFrame

\* the assembly of analysis_results, _get_visualization_files,
\* _save_analysis_results and the return
Assemble(p) ==
    /\ run[p].pc = "assemble"
    /\ LET r == run[p]
           analysis_results ==
               [image_path |-> r.image_path,
                color_analysis |-> r.color_palette,
                texture_analysis |-> r.texture_analysis,
                shape_analysis |-> r.shape_analysis,
                model_parameters |-> r.model_params,
                output_directory |-> r.image_output_dir,
                visualization_files |->
                    IF r.generate_visualizations
                    THEN GetVisualizationFiles(files, r.image_output_dir)
                    ELSE {}]
           out == {Artifact(r.image_output_dir, r.file_name, AnalysisSuffix)}
       IN /\ run' = [run EXCEPT ![p] =
                 [r EXCEPT !.pc = StageAfter("assemble"),
                           !.result = analysis_results,
                           !.trace = Append(@, Event("assemble", << >>, analysis_results)),
                           !.written = @ \cup out]]
          /\ files' = files \cup out
    /\ AnalyzerFrame

NextAnalyzer ==
    \E p \in Runs :
        \/ AnalyzeBegin(p)
        \/ ColorStage(p)
        \/ TextureStage(p)
        \/ ShapeStage(p)
        \/ ModelStage(p)
        \/ Assemble(p)

SpecAnalyzer == InitAnalyzer /\ [][NextAnalyzer]_vars

-----------------------------------------------------------------------------
(* Claims about the analyzer *)

Called(p) == run[p].pc # "idle"
Returned(p) == run[p].pc = "done"
Failed(p) == Returned(p) /\ "error" \in DOMAIN run[p].result
Succeeded(p) == Returned(p) /\ ~Failed(p)

\* C1: analyze_image never lets an exception reach its caller: every
\* exception of a run ends it with the record {error, image_path, status:
\* 'failed'} for the path it was called with, and for a path that does not
\* exist that record is returned before any stage is invoked.
C1_NeverPropagates ==
    \A p \in Runs :
        /\ run[p].pc # "escaped"
        /\ Failed(p) =>
              /\ DOMAIN run[p].result = {"error", "image_path", "status"}
              /\ run[p].result.image_path = run[p].image_path
              /\ run[p].result.status = "failed"
        /\ (Called(p) /\ ~Exists(disk, run[p].image_path)) =>
              /\ Failed(p)
              /\ run[p].trace = << >>
              /\ run[p].written = {}

\* a run failed on the directory creation and another on a missing file
C1_Witness ==
    \E p, q \in Runs :
        /\ Failed(p) /\ Exists(disk, run[p].image_path)
        /\ Failed(q) /\ ~Exists(disk, run[q].image_path)

\* C2: every input error is surfaced as a failed result: for a missing file
\* and for a file that exists but is unreadable, empty or not an image, the
\* returned record has an 'error' field and status 'failed'.
C2_InputErrorsFail ==
    \A p \in Runs :
        (Returned(p) /\ disk[run[p].image_path].kind \in {"missing", "garbage"}) =>
            /\ "error" \in DOMAIN run[p].result
            /\ run[p].result.status = "failed"

StageOrder == <<"color", "texture", "shape", "model", "assemble">>

\* C7: within one invocation the stages run one after another in the order
\* color, texture, shape, model, assembly; generate_model_parameters is
\* called only after the three analyzers have returned and receives exactly
\* the three records they returned; the result is assembled only after model
\* generation has returned, from the records the stages returned.
C7_StagesInOrder ==
    \A p \in Runs :
        LET t == run[p].trace IN
        /\ Len(t) <= Len(StageOrder)
        /\ \A i \in 1..Len(t) : t[i].stage = StageOrder[i]
        /\ \A i \in 1..Len(t) :
               t[i].stage = "model" =>
                   t[i].args = <<run[p].image_path, t[3].returned, t[1].returned,
                                 t[2].returned>>
        /\ \A i \in 1..Len(t) :
               t[i].stage = "assemble" =>
                   /\ t[i].returned.color_analysis = t[1].returned
                   /\ t[i].returned.texture_analysis = t[2].returned
                   /\ t[i].returned.shape_analysis = t[3].returned
                   /\ t[i].returned.model_parameters = t[4].returned
                   /\ run[p].result = t[i].returned

\* a run on a readable image went through all five steps
C7_Witness ==
    \E p \in Runs :
        /\ Succeeded(p)
        /\ Loads(disk, run[p].image_path)
        /\ Len(run[p].trace) = 5
        /\ run[p].model_params.type = "box"

\* C8: re-running analyze_image on the identical image with the identical
\* configuration yields an identical result record.
C8_RerunIdentical ==
    \A p, q \in Runs :
        (/\ Succeeded(p) /\ Succeeded(q)
         /\ p \in run[q].began_after
         /\ run[p].image_path = run[q].image_path
         /\ run[p].generate_visualizations = run[q].generate_visualizations)
            => run[p].result = run[q].result

\* the artifacts of two invocations are kept apart
ArtifactsApart(p, q) ==
    /\ run[p].written \cap run[q].written = {}
    /\ (run[p].image_output_dir # NotYet /\ run[q].image_output_dir # NotYet)
           => run[p].image_output_dir # run[q].image_output_dir
    /\ Succeeded(p) => run[p].result.visualization_files \cap run[q].written = {}

\* C9 as stated: two invocations on two different image paths never write
\* to the same artifact path, have distinct output directories and do not
\* list each other's artifacts.
C9_DifferentPathsApart ==
    \A p, q \in Runs :
        (p # q /\ Called(p) /\ Called(q) /\ run[p].image_path # run[q].image_path)
            => ArtifactsApart(p, q)

\* C9 amended: two invocations on image files whose names without extension
\* (the file_name the output directory is derived from) differ never write
\* to the same artifact path, have distinct output directories and do not
\* list each other's artifacts.
C9_DifferentFileNamesApart ==
    \A p, q \in Runs :
        (/\ p # q /\ Called(p) /\ Called(q)
         /\ FileName(run[p].image_path) # FileName(run[q].image_path))
            => ArtifactsApart(p, q)

\* two overlapping runs on readable images of different file names both
\* returned, each having written its visualizations
C9_Witness ==
    \E p, q \in Runs :
        /\ p # q
        /\ Succeeded(p) /\ Succeeded(q)
        /\ q \notin run[p].began_after /\ p \notin run[q].began_after
        /\ FileName(run[p].image_path) # FileName(run[q].image_path)
        /\ Cardinality(run[p].written) = 5
        /\ Cardinality(run[q].written) = 5

-----------------------------------------------------------------------------
(* Specification of the color extractor alone *)

\* a third of the pixels of the modelled image after resize
ImageTriples == 1

\* pixels of the modelled image (150 * 150 in the code, a multiple of 3)
ImagePixels == 3 * ImageTriples

\* largest configured palette size
MaxNColors == 3

\* the pixel values of each mode
PixelValues(mode) ==
    CASE mode = "RGB" -> PixelColors
      [] mode = "RGBA" -> { c \o <<a>> : c \in PixelColors, a \in {0, 255} }
      [] mode = "LA" -> { <<l, a>> : l \in {0, 255}, a \in {0, 255} }
      [] mode = "L" -> { <<0>>, <<255>> }

\* tuples of channel values in lexicographic order
RECURSIVE LexLeq(_, _)
LexLeq(a, b) ==
    \/ a = << >>
    \/ Head(a) < Head(b)
    \/ Head(a) = Head(b) /\ LexLeq(Tail(a), Tail(b))

\* every image of ImagePixels pixels; where the order of the pixels has no
\* effect (3 and 4 channels) one order stands for all
Images ==
    { [mode |-> "unreadable", data |-> << >>] }
    \cup UNION { { [mode |-> md, data |-> data] :
                     data \in [1..ImagePixels -> PixelValues(md)] } :
                 md \in {"LA", "L"} }
    \cup UNION { { [mode |-> md, data |-> data] :
                     data \in { d \in [1..ImagePixels -> PixelValues(md)] :
                                  \A i \in 1..(ImagePixels - 1) : LexLeq(d[i], d[i + 1]) } } :
                 md \in {"RGB", "RGBA"} }

InitColor ==
    /\ image \in Images
    /\ n_colors \in 1..MaxNColors
    /\ kmeans = NotYet
    /\ palette = NotYet
    /\ ShapeIdle
    /\ AnalyzerIdle
    /\ HelperIdle
    /\ DesignIdle
    /\ shape_analysis = NotYet
    /\ color_analysis = NotYet
    /\ texture_analysis = NotYet
    /\ model_params = NotYet

\* color_extractor.get_color_palette(image_path) with the default arguments
\* (no visualization)
GetColorPaletteCall ==
    /\ palette = NotYet
    /\ image # NotYet
    /\ \E ch \in ExtractionChoices(image, n_colors) :
           /\ kmeans' = ch.outcome
           /\ palette' = GetColorPalette(image, n_colors, ch.outcome, ch.order)
    /\ UNCHANGED <<image, n_colors, modelVars, shapeVars, analyzerVars, helperVars,
                   designVars>>

NextColor == GetColorPaletteCall

SpecColor == InitColor /\ [][NextColor]_vars

-----------------------------------------------------------------------------
(* Claims about the color extractor *)

PaletteDone == palette # NotYet
ExtractionSucceeded == PaletteDone /\ ~ExtractColorsRaises(image, n_colors)

\* the share of the pixels that KMeans assigned to cluster j
ClusterShare(j) == Rat(ClusterPixels(image, kmeans.labels, j) * 100, OpaqueCount(image))

\* the image has at least as many distinct colors as the palette has entries
EnoughColors == Cardinality(Present(image)) >= n_colors

\* C4: in every palette returned after a successful extraction (here: of an
\* image with at least n_colors distinct colors) hex_colors, rgb_values and
\* percentages are ordered alike and by descending share: entry i of each
\* list describes one and the same cluster, and
\* percentages[i] >= percentages[i+1].
C4_PaletteListsAlignedDescending ==
    (ExtractionSucceeded /\ EnoughColors) =>
        /\ Len(palette.rgb_values) = Len(palette.hex_colors)
        /\ Len(palette.percentages) = Len(palette.hex_colors)
        /\ \A i \in 1..Len(palette.hex_colors) :
               \E j \in 1..n_colors :
                   /\ FormatHex(kmeans.centers[j]) = palette.hex_colors[i]
                   /\ palette.rgb_values[i] = kmeans.centers[j]
                   /\ REq(palette.percentages[i], ClusterShare(j))
        /\ \A i \in 1..(Len(palette.percentages) - 1) :
               ~RLess(palette.percentages[i], palette.percentages[i + 1])

-----------------------------------------------------------------------------
(* Specification of the helper methods, each called once on its own *)

InitHelpers ==
    /\ call = NotYet
    /\ DesignIdle
    /\ ShapeIdle
    /\ ColorIdle
    /\ AnalyzerIdle
    /\ shape_analysis = NotYet
    /\ color_analysis = NotYet
    /\ texture_analysis = NotYet
    /\ model_params = NotYet

HelperFrame == UNCHANGED <<modelVars, shapeVars, colorVars, analyzerVars, designVars>>

\* most shapes of one type among the retained shapes
MaxRepeat == 3

\* the types of the shapes handed to _determine_dominant_shapes
TypePool == {"Circle", "Rectangle", "Triangle", "Organic"}

\* lists of shape types: some types of TypePool in some order of first
\* occurrence, each 1..MaxRepeat times
TypeListInputs ==
    UNION { { Concat([i \in 1..Len(order) |-> Repeated(order[i], cnt[i])]) :
                cnt \in [1..Len(order) -> 1..MaxRepeat] } :
            order \in { o \in SeqsUpTo(TypePool, Cardinality(TypePool)) :
                          \A i, j \in 1..Len(o) : o[i] = o[j] => i = j } }

\* a record _analyze_contours appends for a shape of the type
TypicalShape(type) ==
    CASE type = "Circle" -> ShapeRecord(type, 20, 400, 95, 20, 20)
      [] type = "Rectangle" -> ShapeRecord(type, 4, 15000, 75, 150, 100)
      [] type = "Triangle" -> ShapeRecord(type, 3, 100, 60, 20, 10)
      [] type = "Square" -> ShapeRecord(type, 4, 900, 78, 30, 30)
      [] OTHER -> ShapeRecord(type, 20, 400, 40, 30, 20)

\* _determine_dominant_shapes(shape_info, line_info, circle_info)
DetermineDominantShapesCall ==
    /\ call = NotYet
    /\ \E types \in TypeListInputs, complexity \in {"Low", "Medium", "High"},
          lines \in BOOLEAN, circles \in BOOLEAN :
           LET shape_info ==
                   [shapes |-> [i \in 1..Len(types) |->
                                   TypicalShape(types[i])],
                    complexity |-> complexity,
                    distribution |-> "Sparse"]
               line_info == [has_straight_lines |-> lines]
               circle_info == [has_circles |-> circles]
           IN call' = [method |-> "_determine_dominant_shapes",
                       shape_info |-> shape_info,
                       line_info |-> line_info,
                       circle_info |-> circle_info,
                       returned |-> DetermineDominantShapes(shape_info, line_info,
                                                            circle_info)]
    /\ HelperFrame

\* roughness, uniformity, contrast and directionality around the thresholds
\* 10, 30, 0.5 and 0.3 (scaled by 100)
RoughnessInputs == {0, 999, 1000, 1001, 2999, 3000, 3001}
UnitInputs == {0, 29, 30, 31, 49, 50, 51, 100}

\* _determine_texture_type(roughness, uniformity, contrast, directionality)
DetermineTextureTypeCall ==
    /\ call = NotYet
    /\ \E roughness \in RoughnessInputs, uniformity \in UnitInputs,
          contrast \in UnitInputs, directionality \in UnitInputs :
           call' = [method |-> "_determine_texture_type",
                    roughness |-> roughness, uniformity |-> uniformity,
                    contrast |-> contrast, directionality |-> directionality,
                    returned |-> DetermineTextureType(roughness, uniformity, contrast,
                                                      directionality)]
    /\ HelperFrame

\* the LBP entropy around 3.0, 4.0 and 5.0 and the HOG mean and standard
\* deviation around 0.1 and 0.2 (scaled by 100)
EntropyInputs == {0, 299, 300, 301, 399, 400, 401, 499, 500, 501, 800}
HogInputs == {0, 9, 10, 11, 19, 20, 21, 60}

\* _determine_pattern_type(lbp_hist, hog_features)
DeterminePatternTypeCall ==
    /\ call = NotYet
    /\ \E lbp_entropy \in EntropyInputs, hog_mean \in HogInputs, hog_std \in HogInputs :
           call' = [method |-> "_determine_pattern_type",
                    lbp_entropy |-> lbp_entropy, hog_mean |-> hog_mean,
                    hog_std |-> hog_std,
                    returned |-> DeterminePatternType(lbp_entropy, hog_mean, hog_std)]
    /\ HelperFrame

\* longest shape_details list handed to _generate_dimensions
MaxDetails == 2

\* shape records with bounding boxes of aspect ratio 0, below 1, 1, between
\* 1 and 2, 2 and above 2
DimensionShapeInputs ==
    { ShapeRecord(type, 4, area, 60, box[1], box[2]) :
        type \in {"Circle", "Rectangle"}, area \in {400, 900},
        box \in {<<10, 0>>, <<0, 10>>, <<10, 30>>, <<10, 20>>, <<10, 15>>, <<10, 10>>,
                 <<15, 10>>, <<20, 10>>, <<30, 10>>} }
    \cup { ShapeRecord("Square", 4, area, 78, 30, 30) : area \in {400, 900} }

\* _generate_dimensions(shape_analysis)
GenerateDimensionsCall ==
    /\ call = NotYet
    /\ \E details \in SeqsUpTo(DimensionShapeInputs, MaxDetails) :
           LET sa == [dominant_shapes |-> <<"Organic">>,
                      shape_complexity |-> "Low",
                      shape_details |-> details]
           IN call' = [method |-> "_generate_dimensions",
                       shape_analysis |-> sa,
                       returned |-> GenerateDimensions(sa)]
    /\ HelperFrame

\* the labels _determine_texture_type and _determine_pattern_type return,
\* and the 'unknown' of the sentinel record
TextureTypes == {"Smooth", "Matte", "Striated", "Textured", "Rough", "Coarse", "unknown"}
PatternTypes ==
    {"Solid", "Uniform", "Gradient", "Geometric", "Organic", "Complex", "Random", "unknown"}

\* texture records, and dicts that lack the keys the model generator reads
TextureInputs ==
    { TextureRecord(tt, pt) : tt \in TextureTypes, pt \in PatternTypes }
    \cup { [pattern_type |-> pt] : pt \in PatternTypes }
    \cup { [texture_type |-> tt] : tt \in TextureTypes }

\* _suggest_materials(texture_analysis)
SuggestMaterialsCall ==
    /\ call = NotYet
    /\ \E ta \in TextureInputs :
           call' = [method |-> "_suggest_materials",
                    texture_analysis |-> ta,
                    returned |-> SuggestMaterials(ta)]
    /\ HelperFrame

\* _generate_details(shape_analysis, texture_analysis)
GenerateDetailsCall ==
    /\ call = NotYet
    /\ \E complexity \in {"Low", "Medium", "High"}, ta \in TextureInputs :
           LET sa == [dominant_shapes |-> <<"Organic">>,
                      shape_complexity |-> complexity,
                      shape_details |-> << >>]
           IN call' = [method |-> "_generate_details",
                       shape_analysis |-> sa,
                       texture_analysis |-> ta,
                       returned |-> GenerateDetails(sa, ta)]
    /\ HelperFrame

\* longest palette handed to _process_colors
MaxPalette == 4

\* palette entries: a key of color_names, colors near one table color, a
\* color as far from Black as from Gray, and a string that is not a color
HexInputs ==
    { <<"#","F","F","0","0","0","0">>,
      <<"#","0","0","0","0","f","e">>,
      <<"#","4","0","4","0","4","0">>,
      <<"#","7","f","7","f","7","f">>,
      <<"#","f","e","f","e","0","1">>,
      <<"#","z","z","0","0","0","0">> }

\* _process_colors(color_analysis); the ValueError of a malformed entry
\* leaves the method
ProcessColorsCall ==
    /\ call = NotYet
    /\ \E hex_colors \in SeqsUpTo(HexInputs, MaxPalette) :
           LET ca == [hex_colors |-> hex_colors]
           IN call' = [method |-> "_process_colors",
                       color_analysis |-> ca,
                       raised |-> IF ProcessColorsRaises(ca) THEN "ValueError" ELSE "",
                       returned |-> IF ProcessColorsRaises(ca) THEN << >>
                                    ELSE ProcessColors(ca)]
    /\ HelperFrame

\* image_analyzer._generate_color_suggestions(dominant_colors) and, when it
\* returns, a second call on the complementary palette it returned; the
\* ValueError of a malformed entry leaves the method
GenerateColorSuggestionsCall ==
    /\ call = NotYet
    /\ \E dominant_colors \in SeqsUpTo(HexInputs, MaxPalette) :
           LET raises == GenerateColorSuggestionsRaises(dominant_colors)
               returned == GenerateColorSuggestions(dominant_colors)
           IN call' = [method |-> "_generate_color_suggestions",
                       dominant_colors |-> dominant_colors,
                       raised |-> IF raises THEN "ValueError" ELSE "",
                       returned |-> IF raises THEN NoneValue ELSE returned,
                       again |-> IF raises THEN NoneValue
                                 ELSE GenerateColorSuggestions(
                                          returned.complementary_palette)]
    /\ HelperFrame

\* the arguments save_visualization and output_dir of get_color_palette,
\* and whether os.makedirs and plt.savefig succeed
VisualizationInputs ==
    { [save_visualization |-> FALSE, output_dir |-> NoneValue,
       makedirs_ok |-> TRUE, savefig_ok |-> TRUE],
      [save_visualization |-> TRUE, output_dir |-> NoneValue,
       makedirs_ok |-> TRUE, savefig_ok |-> TRUE],
      [save_visualization |-> TRUE, output_dir |-> ImageOutputDir(OutputDir, PathA),
       makedirs_ok |-> TRUE, savefig_ok |-> TRUE],
      [save_visualization |-> TRUE, output_dir |-> ImageOutputDir(OutputDir, PathA),
       makedirs_ok |-> FALSE, savefig_ok |-> TRUE],
      [save_visualization |-> TRUE, output_dir |-> ImageOutputDir(OutputDir, PathA),
       makedirs_ok |-> TRUE, savefig_ok |-> FALSE] }

\* images of one color whose pixels are opaque or transparent, an opaque
\* image, and a file that cannot be read
PaletteInputs ==
    { [mode |-> "unreadable", data |-> << >>] }
    \cup { [mode |-> "RGBA", data |-> data] :
             data \in [1..ImagePixels -> { <<0, 0, 0, 0>>, <<0, 0, 0, 255>> }] }
    \cup { [mode |-> "RGB", data |-> [i \in 1..ImagePixels |-> <<0, 0, 0>>]] }

\* color_extractor.get_color_palette(image_path, save_visualization,
\* output_dir) on the file PathA; os.makedirs may be refused by the file
\* system (OSError, which get_color_palette does not catch) and plt.savefig
\* may fail (caught by visualize_colors); written holds the files the call
\* wrote
GetColorPaletteFullCall ==
    /\ call = NotYet
    /\ \E img \in PaletteInputs, n \in 1..2 :
         \E ch \in ExtractionChoices(img, n), v \in VisualizationInputs :
           LET extracted == ExtractColors(img, n, ch.outcome, ch.order)
               raises == /\ v.save_visualization
                         /\ extracted[1] # << >>
                         /\ v.output_dir # NoneValue
                         /\ ~v.makedirs_ok
           IN call' = [method |-> "get_color_palette",
                       image |-> img,
                       save_visualization |-> v.save_visualization,
                       output_dir |-> v.output_dir,
                       extracted |-> extracted,
                       raised |-> IF raises THEN "OSError" ELSE "",
                       returned |-> IF raises THEN NoneValue
                                    ELSE GetColorPalette(img, n, ch.outcome, ch.order),
                       written |-> IF raises THEN {}
                                   ELSE PaletteVisualization(extracted[1],
                                            v.save_visualization, v.output_dir,
                                            FileName(PathA), v.savefig_ok)]
    /\ HelperFrame

\* most contours of one image handed to detect_shapes here
MaxDetected == 6

\* contours of different areas, among them one that is not retained
DetectedKinds ==
    { Contour(4, 4, 400, 60, 20, 20),         \* fewer than 5 points
      Contour(40, 20, 400, 90, 20, 20),       \* round, area 400
      Contour(30, 4, 900, 78, 30, 30),        \* square, area 900
      Contour(60, 4, 15000, 75, 100, 150) }   \* tall quadrilateral, area 15000

\* shape_detector.detect_shapes(image_path) followed, as in analyze_image,
\* by _generate_dimensions on the profile it returned; largest_shape is the
\* record _generate_dimensions picks
DetectShapesThenDimensionsCall ==
    /\ call = NotYet
    /\ \E cs \in SeqsUpTo(DetectedKinds, MaxDetected) :
           LET sa == DetectShapes(TRUE, cs, FALSE, FALSE)
           IN call' = [method |-> "detect_shapes, _generate_dimensions",
                       contours |-> cs,
                       shape_analysis |-> sa,
                       largest_shape |-> IF sa.shape_details = << >> THEN NoneValue
                                         ELSE LargestShape(sa.shape_details),
                       returned |-> GenerateDimensions(sa)]
    /\ HelperFrame

\* most contours of area 100 in one input of _analyze_contours
MaxUnitContours == 11

\* contours whose polygon areas lie around 0.2 and 0.5 of the 512 * 512
\* working image (52428.8 and 131072)
LargeContours ==
    { Contour(200, 4, a, 75, 300, 200) : a \in {52428, 52429, 131071, 131072} }

\* contour lists: up to two large contours, then n contours of area 100,
\* with a contour of fewer than 5 points in front and one of area 99 behind
ContourListInputs ==
    { (IF few THEN <<Contour(4, 4, 400, 60, 20, 20)>> ELSE << >>)
          \o large \o Repeated(Contour(24, 3, 100, 60, 20, 10), n)
          \o (IF tiny THEN <<Contour(12, 4, 99, 60, 11, 9)>> ELSE << >>) :
        few \in BOOLEAN, tiny \in BOOLEAN, large \in SeqsUpTo(LargeContours, 2),
        n \in 0..MaxUnitContours }

\* _analyze_contours(contours, resized.shape)
AnalyzeContoursCall ==
    /\ call = NotYet
    /\ \E cs \in ContourListInputs :
           call' = [method |-> "_analyze_contours", contours |-> cs,
                    image_shape |-> <<WorkingSize, WorkingSize>>,
                    returned |-> AnalyzeContours(cs, <<WorkingSize, WorkingSize>>)]
    /\ HelperFrame

\* the measurements of the modelled images: roughness, uniformity, contrast
\* and the HOG statistics times 100, the LBP entropy times 100
TextureMetricInputs ==
    { [roughness |-> 500, uniformity |-> 60, contrast |-> 10,
       hog_mean |-> 10, hog_std |-> 5, lbp_entropy |-> 250,
       features |-> <<"lbp_histogram", "hog_features">>],
      [roughness |-> 3500, uniformity |-> 20, contrast |-> 40,
       hog_mean |-> 25, hog_std |-> 25, lbp_entropy |-> 450,
       features |-> <<"lbp_histogram", "hog_features">>] }

\* texture_analyzer.analyze_texture(image_path): loaded is whether
\* cv2.imread returns an image, step_fails whether a later step raises
AnalyzeTextureCall ==
    /\ call = NotYet
    /\ \E loaded \in BOOLEAN, step_fails \in BOOLEAN, m \in TextureMetricInputs :
           call' = [method |-> "analyze_texture", loaded |-> loaded,
                    step_fails |-> step_fails, metrics |-> m,
                    returned |-> AnalyzeTexture(~AnalyzeTextureRaises(loaded, step_fails),
                                                m)]
    /\ HelperFrame

NextHelpers ==
    \/ DetermineDominantShapesCall
    \/ DetermineTextureTypeCall
    \/ DeterminePatternTypeCall
    \/ GenerateDimensionsCall
    \/ SuggestMaterialsCall
    \/ GenerateDetailsCall
    \/ ProcessColorsCall
    \/ AnalyzeTextureCall
    \/ AnalyzeContoursCall
    \/ GenerateColorSuggestionsCall
    \/ DetectShapesThenDimensionsCall
    \/ GetColorPaletteFullCall


SpecHelpers == InitHelpers /\ [][NextHelpers]_vars

-----------------------------------------------------------------------------
(* Claims about the helper methods *)

Calls(method) == call # NotYet /\ call.method = method

\* the types of the shapes of the call, how often a type occurs, and the
\* types that occur more than once
CallTypes == [i \in 1..Len(call.shape_info.shapes) |-> call.shape_info.shapes[i].type]
Occurrences(t) == Cardinality({i \in 1..Len(CallTypes) : CallTypes[i] = t})
RepeatedTypes == {t \in Range(CallTypes) : Occurrences(t) > 1}

\* the order in which C11 says dominant_shapes is built: the leading entries
\* are the (at most three) most frequent of the types that occur more than
\* once, in descending frequency; then 'Geometric' if lines were found and
\* the list is empty; then 'Circular' if circles were found and 'Circle' is
\* not listed; then, for a list still empty, 'Complex' or 'Organic'
C11_BuiltInOrder ==
    LET r == call.returned
        k == IF Cardinality(RepeatedTypes) < 3 THEN Cardinality(RepeatedTypes) ELSE 3
        top == SubSeq(r, 1, k)
        geometric == IF call.line_info.has_straight_lines /\ top = << >>
                     THEN <<"Geometric">> ELSE << >>
        circular == IF call.circle_info.has_circles /\ ~InList("Circle", top \o geometric)
                    THEN <<"Circular">> ELSE << >>
        fallback == IF top \o geometric \o circular # << >> THEN << >>
                    ELSE IF call.shape_info.complexity = "High" THEN <<"Complex">>
                    ELSE <<"Organic">>
    IN /\ Len(r) >= k
       /\ \A i \in 1..k : top[i] \in RepeatedTypes
       /\ \A i, j \in 1..k : top[i] = top[j] => i = j
       /\ \A i \in 1..(k - 1) : Occurrences(top[i]) >= Occurrences(top[i + 1])
       /\ \A t \in RepeatedTypes \ Range(top) :
              \A i \in 1..k : Occurrences(t) <= Occurrences(top[i])
       /\ r = top \o geometric \o circular \o fallback
       /\ r # << >>

\* C11 as stated: dominant_shapes is built in that order, is never empty,
\* and never lists a shape type that occurs exactly once.
C11_OnceNeverListed ==
    Calls("_determine_dominant_shapes") =>
        /\ C11_BuiltInOrder
        /\ \A i \in 1..Len(call.returned) : Occurrences(call.returned[i]) # 1

\* C11 amended: dominant_shapes is built in that order and is never empty;
\* a shape type that occurs exactly once is listed only as the fallback
\* label 'Organic' of a list that would otherwise be empty.
C11_OnceListedOnlyAsFallback ==
    Calls("_determine_dominant_shapes") =>
        /\ C11_BuiltInOrder
        /\ \A i \in 1..Len(call.returned) :
               Occurrences(call.returned[i]) = 1 =>
                   /\ call.returned = <<"Organic">>
                   /\ RepeatedTypes = {}
                   /\ ~call.line_info.has_straight_lines
                   /\ ~call.circle_info.has_circles
                   /\ call.shape_info.complexity # "High"

\* four types occur more than once and a fifth label is added for circles:
\* the three most frequent are listed and the fourth is dropped
C11_Witness ==
    /\ Calls("_determine_dominant_shapes")
    /\ Cardinality(RepeatedTypes) = 4
    /\ call.circle_info.has_circles
    /\ call.returned = <<"Organic", "Triangle", "Rectangle", "Circular">>

\* C12: roughness < 10 gives 'Smooth' when uniformity > 0.5 and 'Matte'
\* otherwise; else roughness < 30 gives 'Striated' when directionality > 0.5
\* and 'Textured' otherwise; else 'Rough' when contrast > 0.3 and 'Coarse'
\* otherwise; the comparisons are strict, so 10, 30, 0.5 and 0.3 fall in the
\* later branch.
C12_TextureTypeRule ==
    Calls("_determine_texture_type") =>
        LET t == call.returned
            low == call.roughness < 1000
            mid == call.roughness >= 1000 /\ call.roughness < 3000
            high == call.roughness >= 3000
        IN /\ (low /\ call.uniformity > 50) => t = "Smooth"
           /\ (low /\ call.uniformity <= 50) => t = "Matte"
           /\ (mid /\ call.directionality > 50) => t = "Striated"
           /\ (mid /\ call.directionality <= 50) => t = "Textured"
           /\ (high /\ call.contrast > 30) => t = "Rough"
           /\ (high /\ call.contrast <= 30) => t = "Coarse"

\* roughness exactly 30 and contrast exactly 0.3 were classified
C12_Witness ==
    /\ Calls("_determine_texture_type")
    /\ call.roughness = 3000
    /\ call.contrast = 30
    /\ call.directionality = 100
    /\ call.returned = "Coarse"

\* C13: entropy < 3.0 gives 'Solid'; else entropy < 4.0 gives 'Uniform' when
\* HOG std < 0.1 and 'Gradient' otherwise; else entropy < 5.0 gives
\* 'Geometric' when HOG mean > 0.2 and 'Organic' otherwise; else 'Complex'
\* when HOG std > 0.2 and 'Random' otherwise; every input gets exactly the
\* label of its entropy band.
C13_PatternTypeRule ==
    Calls("_determine_pattern_type") =>
        LET t == call.returned
            e == call.lbp_entropy
            band1 == e < 300
            band2 == e >= 300 /\ e < 400
            band3 == e >= 400 /\ e < 500
            band4 == e >= 500
        IN /\ band1 => t = "Solid"
           /\ (band2 /\ call.hog_std < 10) => t = "Uniform"
           /\ (band2 /\ call.hog_std >= 10) => t = "Gradient"
           /\ (band3 /\ call.hog_mean > 20) => t = "Geometric"
           /\ (band3 /\ call.hog_mean <= 20) => t = "Organic"
           /\ (band4 /\ call.hog_std > 20) => t = "Complex"
           /\ (band4 /\ call.hog_std <= 20) => t = "Random"
           /\ t \in {"Solid", "Uniform", "Gradient", "Geometric", "Organic",
                     "Complex", "Random"}

\* entropy exactly 5.0 with a high HOG mean and HOG std exactly 0.2 was
\* classified
C13_Witness ==
    /\ Calls("_determine_pattern_type")
    /\ call.lbp_entropy = 500
    /\ call.hog_mean = 60
    /\ call.hog_std = 20
    /\ call.returned = "Random"

\* the first record of largest area among the shape_details of the call
C14_Largest ==
    LET details == call.shape_analysis.shape_details
        i == CHOOSE i \in 1..Len(details) :
                 /\ \A j \in 1..Len(details) : details[j].area <= details[i].area
                 /\ \A j \in 1..(i - 1) : details[j].area < details[i].area
    IN details[i]

\* the rational x (x.n / x.d with x.d > 0) equals n / d, and lies in [lo, hi]
C14_Is(x, n, d) == x.d > 0 /\ d > 0 /\ x.n * d = n * x.d
C14_Within(x, lo, hi) == x.d > 0 /\ lo.n * x.d <= x.n * lo.d /\ x.n * hi.d <= hi.n * x.d

\* C14: the dimensions start from (1, 1, 1); with shape details, r being the
\* aspect ratio of the record of largest area: r > 1 gives width min(2, r)
\* and height 1, otherwise width 1 and height min(2, 1/r) (1 when r is 0);
\* depth is width for a 'Circle' or 'Square' record and width * 0.5
\* otherwise.  Hence 1 <= width <= 2, 1 <= height <= 2, width or height is
\* 1, and 0.5 <= depth <= 2.
C14_DimensionsRule ==
    Calls("_generate_dimensions") =>
        LET dim == call.returned
            details == call.shape_analysis.shape_details
        IN /\ details = << >> =>
                  /\ C14_Is(dim.width, 1, 1)
                  /\ C14_Is(dim.height, 1, 1)
                  /\ C14_Is(dim.depth, 1, 1)
           /\ details # << >> =>
                  LET r == C14_Largest.aspect_ratio
                      type == C14_Largest.type
                  IN /\ r.n > 2 * r.d =>
                            C14_Is(dim.width, 2, 1) /\ C14_Is(dim.height, 1, 1)
                     /\ (r.n > r.d /\ r.n <= 2 * r.d) =>
                            C14_Is(dim.width, r.n, r.d) /\ C14_Is(dim.height, 1, 1)
                     /\ (r.n <= r.d /\ 2 * r.n >= r.d /\ r.n > 0) =>
                            C14_Is(dim.width, 1, 1) /\ C14_Is(dim.height, r.d, r.n)
                     /\ (2 * r.n < r.d /\ r.n > 0) =>
                            C14_Is(dim.width, 1, 1) /\ C14_Is(dim.height, 2, 1)
                     /\ r.n = 0 =>
                            C14_Is(dim.width, 1, 1) /\ C14_Is(dim.height, 1, 1)
                     /\ type \in {"Circle", "Square"} =>
                            C14_Is(dim.depth, dim.width.n, dim.width.d)
                     /\ type \notin {"Circle", "Square"} =>
                            C14_Is(dim.depth, dim.width.n, 2 * dim.width.d)
           /\ C14_Within(dim.width, One, Two)
           /\ C14_Within(dim.height, One, Two)
           /\ C14_Is(dim.width, 1, 1) \/ C14_Is(dim.height, 1, 1)
           /\ C14_Within(dim.depth, Rat(1, 2), Two)

\* the larger of two records is a tall rectangle of aspect ratio 1/3, listed
\* after a smaller circle: height is capped at 2 and depth is 0.5
C14_Witness ==
    /\ Calls("_generate_dimensions")
    /\ Len(call.shape_analysis.shape_details) = 2
    /\ call.shape_analysis.shape_details[1].type = "Circle"
    /\ C14_Largest = call.shape_analysis.shape_details[2]
    /\ C14_Largest.type = "Rectangle"
    /\ C14_Largest.aspect_ratio = Rat(10, 30)
    /\ C14_Is(call.returned.height, 2, 1)
    /\ C14_Is(call.returned.depth, 1, 2)

\* the texture and pattern type the model generator reads from the
\* texture_analysis of the call
CallTextureType ==
    IF "texture_type" \in DOMAIN call.texture_analysis
    THEN call.texture_analysis.texture_type ELSE "Unknown"
CallPatternType ==
    IF "pattern_type" \in DOMAIN call.texture_analysis
    THEN call.texture_analysis.pattern_type ELSE "Unknown"

\* C15: the materials are the candidate list of the texture type (three
\* candidates for Smooth, Matte, Rough and Textured, 'Plastic' for any other
\* type), then '3D Printed Polymer' for pattern Geometric or 'Natural Wood'
\* for pattern Organic, cut to the first 3 entries; the list has 1 to 3
\* entries.
C15_MaterialsRule ==
    Calls("_suggest_materials") =>
        LET r == call.returned
            candidates ==
                CASE CallTextureType = "Smooth" -> <<"Glass", "Polished Metal", "Plastic">>
                  [] CallTextureType = "Matte" -> <<"Matte Plastic", "Rubber", "Fabric">>
                  [] CallTextureType = "Rough" -> <<"Stone", "Concrete", "Wood">>
                  [] CallTextureType = "Textured" ->
                         <<"Textured Plastic", "Leather", "Canvas">>
                  [] OTHER -> <<"Plastic">>
            with_bonus ==
                CASE CallPatternType = "Geometric" -> Append(candidates, "3D Printed Polymer")
                  [] CallPatternType = "Organic" -> Append(candidates, "Natural Wood")
                  [] OTHER -> candidates
        IN /\ Len(r) >= 1 /\ Len(r) <= 3
           /\ Len(r) = (IF Len(with_bonus) > 3 THEN 3 ELSE Len(with_bonus))
           /\ \A i \in 1..Len(r) : r[i] = with_bonus[i]

\* a texture type with three candidates and a pattern with a bonus: the
\* bonus is cut off
C15_Witness ==
    /\ Calls("_suggest_materials")
    /\ CallTextureType = "Rough"
    /\ CallPatternType = "Organic"
    /\ call.returned = <<"Stone", "Concrete", "Wood">>

\* C17: the details are, in this order, a 'surface_detail' entry (intensity
\* 0.8 for High complexity, 0.5 for Medium, none for Low), a 'roughness'
\* entry (0.7) for texture Rough or a 'bump_map' entry (0.6) for Textured,
\* and a 'geometric_pattern' entry (0.5) for pattern Geometric or an
\* 'organic_pattern' entry (0.6) for Organic; at most three entries, every
\* intensity within [0, 1].  Intensities are scaled by 10.
C17_DetailsRule ==
    Calls("_generate_details") =>
        LET r == call.returned
            complexity == call.shape_analysis.shape_complexity
            Entry(i) == <<r[i].type, r[i].intensity>>
            first == CASE complexity = "High" -> << <<"surface_detail", 8>> >>
                       [] complexity = "Medium" -> << <<"surface_detail", 5>> >>
                       [] OTHER -> << >>
            second == CASE CallTextureType = "Rough" -> << <<"roughness", 7>> >>
                        [] CallTextureType = "Textured" -> << <<"bump_map", 6>> >>
                        [] OTHER -> << >>
            third == CASE CallPatternType = "Geometric" -> << <<"geometric_pattern", 5>> >>
                       [] CallPatternType = "Organic" -> << <<"organic_pattern", 6>> >>
                       [] OTHER -> << >>
        IN /\ Len(r) <= 3
           /\ [i \in 1..Len(r) |-> Entry(i)] = first \o second \o third
           /\ \A i \in 1..Len(r) : r[i].intensity >= 0 /\ r[i].intensity <= 10

\* all three entries are present
C17_Witness ==
    /\ Calls("_generate_details")
    /\ call.shape_analysis.shape_complexity = "Medium"
    /\ CallTextureType = "Textured"
    /\ CallPatternType = "Geometric"
    /\ Len(call.returned) = 3
    /\ call.returned[2].type = "bump_map"

\* the reference table of C16, in table order
C16_Table ==
    << [name |-> "Red", rgb |-> <<255, 0, 0>>],
       [name |-> "Green", rgb |-> <<0, 255, 0>>],
       [name |-> "Blue", rgb |-> <<0, 0, 255>>],
       [name |-> "Yellow", rgb |-> <<255, 255, 0>>],
       [name |-> "Magenta", rgb |-> <<255, 0, 255>>],
       [name |-> "Cyan", rgb |-> <<0, 255, 255>>],
       [name |-> "Black", rgb |-> <<0, 0, 0>>],
       [name |-> "White", rgb |-> <<255, 255, 255>>],
       [name |-> "Gray", rgb |-> <<128, 128, 128>>] >>

\* '#rrggbb' with hexadecimal digits
C16_WellFormed(hex) ==
    /\ Len(hex) = 7
    /\ hex[1] = "#"
    /\ \A i \in 2..7 : IsHexDigit(hex[i])

C16_Rgb(hex) ==
    [ch \in 1..3 |-> 16 * HexVal(hex[2 * ch]) + HexVal(hex[2 * ch + 1])]

C16_Distance2(a, b) ==
    (a[1] - b[1]) * (a[1] - b[1]) + (a[2] - b[2]) * (a[2] - b[2])
        + (a[3] - b[3]) * (a[3] - b[3])

\* the table entries at minimum distance from the color
C16_Nearest(hex) ==
    { i \in 1..Len(C16_Table) :
        \A j \in 1..Len(C16_Table) :
            C16_Distance2(C16_Rgb(hex), C16_Table[i].rgb)
                <= C16_Distance2(C16_Rgb(hex), C16_Table[j].rgb) }

\* the first three palette entries of the call
C16_Named ==
    LET hex_colors == call.color_analysis.hex_colors
    IN SubSeq(hex_colors, 1, IF Len(hex_colors) < 3 THEN Len(hex_colors) ELSE 3)

\* C16: _process_colors names at most the first 3 palette entries, in
\* palette order, each with the name of the table color at minimum Euclidean
\* RGB distance, the earlier table color winning a tie; only a color that
\* matches no table color is named 'Custom'.  (Stated for palettes whose
\* named entries are well-formed '#rrggbb' strings; _process_colors raises
\* ValueError exactly when one of them is not.)
C16_ColorNamesRule ==
    Calls("_process_colors") =>
        LET r == call.returned
            wellformed == \A i \in 1..Len(C16_Named) : C16_WellFormed(C16_Named[i])
        IN /\ wellformed <=> call.raised = ""
           /\ ~wellformed => call.raised = "ValueError"
           /\ wellformed =>
                 /\ Len(r) = Len(C16_Named)
                 /\ Len(r) <= 3
                 /\ \A i \in 1..Len(r) :
                        LET nearest == C16_Nearest(C16_Named[i]) IN
                        /\ r[i].hex = C16_Named[i]
                        /\ nearest = {} <=> r[i].name = "Custom"
                        /\ nearest # {} =>
                               r[i].name
                                   = C16_Table[CHOOSE n \in nearest :
                                                   \A m \in nearest : n <= m].name

\* four palette entries, the first as far from Black as from Gray: three are
\* named and the first is named 'Black'
C16_Witness ==
    /\ Calls("_process_colors")
    /\ Len(call.color_analysis.hex_colors) = 4
    /\ call.color_analysis.hex_colors[1] = <<"#","4","0","4","0","4","0">>
    /\ {7, 9} \subseteq C16_Nearest(call.color_analysis.hex_colors[1])
    /\ call.raised = ""
    /\ Len(call.returned) = 3
    /\ call.returned[1].name = "Black"
    /\ call.returned[2].name = "Red"

-----------------------------------------------------------------------------
(* Claims about degenerate images *)

\* the three records handed to generate_model_parameters are the sentinels
\* of the analyzers
C18_AllSentinels(sa, ca, ta) ==
    /\ ca.hex_colors = << >> /\ ca.rgb_values = << >> /\ ca.percentages = << >>
    /\ sa.dominant_shapes = <<"Unknown">>
    /\ sa.shape_details = << >>
    /\ sa.shape_complexity = "Low"
    /\ ta.texture_type = "unknown"
    /\ ta.pattern_type = "unknown"
    /\ ta.roughness = 0 /\ ta.uniformity = 0 /\ ta.contrast = 0 /\ ta.directionality = 0

C18_GenericModel(mp) ==
    /\ DOMAIN mp = {"type", "dimensions", "colors", "materials", "details"}
    /\ mp.type = "generic"
    /\ REq(mp.dimensions.width, One)
    /\ REq(mp.dimensions.height, One)
    /\ REq(mp.dimensions.depth, One)
    /\ mp.colors = << >>
    /\ mp.materials = <<"Plastic">>
    /\ mp.details = << >>

\* C18: when every analyzer returns its sentinel, generate_model_parameters
\* returns, without raising, the record of type 'generic' with dimensions
\* (1, 1, 1), no colors, materials ['Plastic'] and no details, and
\* analyze_image returns a complete analysis record holding those values.
C18_SentinelsGiveGenericModel ==
    \A p \in Runs :
        LET t == run[p].trace IN
        (Len(t) >= 4 /\ C18_AllSentinels(t[3].returned, t[1].returned, t[2].returned)) =>
            /\ t[4].stage = "model"
            /\ C18_GenericModel(t[4].returned)
            /\ run[p].pc \in {"assemble", "done"}
            /\ Returned(p) =>
                  /\ DOMAIN run[p].result =
                         {"image_path", "color_analysis", "texture_analysis",
                          "shape_analysis", "model_parameters", "output_directory",
                          "visualization_files"}
                  /\ C18_AllSentinels(run[p].result.shape_analysis,
                                      run[p].result.color_analysis,
                                      run[p].result.texture_analysis)
                  /\ C18_GenericModel(run[p].result.model_parameters)
                  /\ run[p].result.image_path = run[p].image_path

\* a run on a file that is not an image returned the generic record
C18_Witness ==
    \E p \in Runs :
        /\ Returned(p)
        /\ ~Loads(disk, run[p].image_path)
        /\ Len(run[p].trace) = 5
        /\ C18_AllSentinels(run[p].shape_analysis, run[p].color_palette,
                            run[p].texture_analysis)
        /\ C18_GenericModel(run[p].result.model_parameters)

-----------------------------------------------------------------------------
(* Claims about the percentages and the length of the palette *)

\* the image has an alpha channel, which is the last channel of a pixel
C19_HasAlpha(img) == img.mode \in {"RGBA", "LA"}

\* the pixels of the image that are not fully transparent
C19_KeptPixels(img) ==
    IF C19_HasAlpha(img)
    THEN SelectSeq(img.data, LAMBDA px : px[Len(px)] > 0)
    ELSE img.data

RECURSIVE C19_Sum(_)
C19_Sum(pct) ==
    IF pct = << >> THEN Rat(0, 1)
    ELSE LET rest == C19_Sum(Tail(pct))
         IN Rat(Head(pct).n * rest.d + rest.n * Head(pct).d, Head(pct).d * rest.d)

\* C19: after a successful extraction every percentage is non-negative, the
\* percentages sum to 100, every pixel kept for clustering is counted in
\* exactly one cluster and the share of a cluster is (pixels assigned to
\* it) / (pixels clustered) * 100, where the pixels clustered are all pixels
\* of an image without alpha channel and the pixels of alpha above 0 of an
\* image with one.
C19_PercentagesOfKeptPixels ==
    ExtractionSucceeded =>
        LET pct == palette.percentages
            clustered == Len(C19_KeptPixels(image))
            Assigned(j) == ClusterPixels(image, kmeans.labels, j)
        IN /\ \A j \in 1..Len(pct) : pct[j].n >= 0 /\ pct[j].d > 0
           /\ REq(C19_Sum(pct), Rat(100, 1))
           /\ clustered > 0
           /\ C19_Sum([j \in 1..Len(pct) |-> Rat(Assigned(j), 1)]) = Rat(clustered, 1)
           /\ \A j \in 1..Len(pct) : REq(pct[j], Rat(Assigned(j) * 100, clustered))

\* C20: after a successful extraction with palette size k the ordered hex
\* list has exactly k entries, and so have the rgb and percentages lists,
\* also when a cluster received no pixel.
C20_PaletteHasNColors ==
    ExtractionSucceeded =>
        /\ Len(palette.hex_colors) = n_colors
        /\ Len(palette.rgb_values) = n_colors
        /\ Len(palette.percentages) = n_colors

-----------------------------------------------------------------------------
(* Claims about failure handling *)

\* the image cannot be opened, or it has four channels and every pixel has
\* alpha 0, so that no pixel is left to cluster
C21_NothingToCluster ==
    \/ call.image.mode = "unreadable"
    \/ /\ call.image.mode = "RGBA"
       /\ \A i \in 1..Len(call.image.data) : call.image.data[i][4] = 0

\* C21: get_color_palette on an unreadable image, or on one that leaves no
\* pixel to cluster, does not raise: extract_colors returned the empty color
\* list with the empty info, the palette returned has hex_colors = [],
\* rgb_values = [] and percentages = [], and no palette visualization was
\* written, whatever save_visualization and output_dir were.
C21_UnreadableGivesEmptyPalette ==
    (Calls("get_color_palette") /\ C21_NothingToCluster) =>
        /\ call.raised = ""
        /\ call.extracted[1] = << >>
        /\ DOMAIN call.extracted[2] = {}
        /\ call.returned # NoneValue
        /\ call.returned.hex_colors = << >>
        /\ call.returned.rgb_values = << >>
        /\ call.returned.percentages = << >>
        /\ call.written = {}

\* a fully transparent image, with a visualization asked for
C21_Witness ==
    /\ Calls("get_color_palette")
    /\ call.image.mode = "RGBA"
    /\ \A i \in 1..Len(call.image.data) : call.image.data[i][4] = 0
    /\ call.save_visualization
    /\ call.output_dir # NoneValue
    /\ call.returned # NoneValue

\* C22: detect_shapes does not raise; when the image cannot be loaded or a
\* step of the detection fails it returns the sentinel profile:
\* dominant_shapes = ['Unknown'], shape_count = 0, has_straight_lines and
\* has_curves false, shape_complexity = 'Low' and empty shape_details.
C22_ShapeSentinelOnFailure ==
    (Calls("detect_shapes") /\ (~readable \/ call.step_fails)) =>
        /\ shape_analysis # NotYet
        /\ shape_analysis.dominant_shapes = <<"Unknown">>
        /\ shape_analysis.shape_count = 0
        /\ shape_analysis.has_straight_lines = FALSE
        /\ shape_analysis.has_curves = FALSE
        /\ shape_analysis.shape_complexity = "Low"
        /\ shape_analysis.shape_details = << >>

\* a step failed on a loaded image that has retained shapes, lines and
\* circles
C22_Witness ==
    /\ Calls("detect_shapes")
    /\ readable
    /\ call.step_fails
    /\ \E i \in 1..Len(contours) : Retained(contours[i])
    /\ has_lines
    /\ has_circles
    /\ shape_analysis # NotYet

\* C23: analyze_texture does not raise; when the image cannot be loaded or
\* a step of the analysis fails it returns texture_type = 'unknown',
\* pattern_type = 'unknown', roughness, uniformity, contrast and
\* directionality 0.0 and empty features.
C23_TextureSentinelOnFailure ==
    (Calls("analyze_texture") /\ (~call.loaded \/ call.step_fails)) =>
        /\ call.returned.texture_type = "unknown"
        /\ call.returned.pattern_type = "unknown"
        /\ call.returned.roughness = 0
        /\ call.returned.uniformity = 0
        /\ call.returned.contrast = 0
        /\ call.returned.directionality = 0
        /\ DOMAIN call.returned.features = {}

\* a step failed on a loaded image of a rough texture
C23_Witness ==
    /\ Calls("analyze_texture")
    /\ call.loaded
    /\ call.step_fails
    /\ call.metrics.roughness > 3000

-----------------------------------------------------------------------------
(* Claims about the aggregates of the shape profile *)

\* the contours of the call that have at least 5 points and a polygon of
\* area at least 100, and the sum of their areas
C24_Kept == {i \in 1..Len(call.contours) :
                call.contours[i].points >= 5 /\ call.contours[i].area >= 100}

RECURSIVE C24_Area(_)
C24_Area(S) ==
    IF S = {} THEN 0
    ELSE LET i == CHOOSE x \in S : TRUE
         IN call.contours[i].area + C24_Area(S \ {i})

\* C24: _analyze_contours returns as many shapes as contours were retained
\* (at least 5 points, polygon area at least 100); complexity is 'Low' for
\* fewer than 3 of them, 'Medium' for 3 to 9 and 'High' for 10 or more;
\* distribution is 'Sparse' when the summed retained area is below 0.2 of
\* the working-image area, 'Moderate' from 0.2 to below 0.5 and 'Dense'
\* from 0.5.
C24_AggregatesRule ==
    Calls("_analyze_contours") =>
        LET r == call.returned
            count == Cardinality(C24_Kept)
            covered == C24_Area(C24_Kept)
            total == call.image_shape[1] * call.image_shape[2]
        IN /\ Len(r.shapes) = count
           /\ r.complexity = "Low" <=> count < 3
           /\ r.complexity = "Medium" <=> (count >= 3 /\ count <= 9)
           /\ r.complexity = "High" <=> count >= 10
           /\ r.distribution = "Sparse" <=> 10 * covered < 2 * total
           /\ r.distribution = "Moderate" <=>
                  (10 * covered >= 2 * total /\ 10 * covered < 5 * total)
           /\ r.distribution = "Dense" <=> 10 * covered >= 5 * total

\* exactly 10 shapes were retained of 12 contours, and they cover between
\* 0.2 and 0.5 of the working image
C24_Witness ==
    /\ Calls("_analyze_contours")
    /\ Len(call.contours) = 12
    /\ Len(call.returned.shapes) = 10
    /\ call.returned.complexity = "High"
    /\ call.returned.distribution = "Moderate"

-----------------------------------------------------------------------------
(* Claims about the design suggestions *)

\* the value of a hexadecimal digit, and the (r, g, b) a string '#rrggbb'
\* denotes
C25_Digit(c) ==
    CASE c \in {"0", "1", "2", "3", "4", "5", "6", "7", "8", "9"} ->
             CHOOSE v \in 0..9 : <<"0", "1", "2", "3", "4", "5", "6", "7", "8", "9">>[v + 1] = c
      [] c \in {"a", "A"} -> 10
      [] c \in {"b", "B"} -> 11
      [] c \in {"c", "C"} -> 12
      [] c \in {"d", "D"} -> 13
      [] c \in {"e", "E"} -> 14
      [] c \in {"f", "F"} -> 15
C25_Rgb(hex) ==
    [ch \in 1..3 |-> 16 * C25_Digit(hex[2 * ch]) + C25_Digit(hex[2 * ch + 1])]
C25_Inverse(rgb) == [ch \in 1..3 |-> 255 - rgb[ch]]
C25_LowerHex(hex) ==
    Len(hex) = 7 /\ hex[1] = "#"
        /\ \A i \in 2..7 : hex[i] \in {"0", "1", "2", "3", "4", "5", "6", "7", "8", "9",
                                       "a", "b", "c", "d", "e", "f"}

\* C25: when _generate_color_suggestions returns, the primary palette is
\* the first 3 (or fewer) dominant colors, or ['#CCCCCC'] for an empty list;
\* the complementary palette has, in the same order, the channel-wise
\* inverse (255 - c) of each primary color; recommended_accent is the
\* complement of the first primary color; and complementing the
\* complementary palette gives back the primary colors.
C25_ComplementaryPalette ==
    (Calls("_generate_color_suggestions") /\ call.raised = "") =>
        LET dom == call.dominant_colors
            primary == call.returned.primary_palette
            complementary == call.returned.complementary_palette
        IN /\ dom # << >> =>
                  primary = SubSeq(dom, 1, IF Len(dom) < 3 THEN Len(dom) ELSE 3)
           /\ dom = << >> => primary = << <<"#", "C", "C", "C", "C", "C", "C">> >>
           /\ Len(complementary) = Len(primary)
           /\ \A i \in 1..Len(primary) :
                  /\ C25_LowerHex(complementary[i])
                  /\ C25_Rgb(complementary[i]) = C25_Inverse(C25_Rgb(primary[i]))
           /\ call.returned.recommended_accent = complementary[1]
           /\ C25_Rgb(call.returned.recommended_accent) = C25_Inverse(C25_Rgb(primary[1]))
           /\ call.again.primary_palette = complementary
           /\ Len(call.again.complementary_palette) = Len(primary)
           /\ \A i \in 1..Len(primary) :
                  /\ C25_Rgb(call.again.complementary_palette[i]) = C25_Rgb(primary[i])
                  /\ C25_LowerHex(primary[i]) =>
                         call.again.complementary_palette[i] = primary[i]

\* four dominant colors of which the fourth is malformed and the first is
\* written in upper case
C25_Witness ==
    /\ Calls("_generate_color_suggestions")
    /\ call.raised = ""
    /\ Len(call.dominant_colors) = 4
    /\ call.dominant_colors[1] = <<"#", "F", "F", "0", "0", "0", "0">>
    /\ call.dominant_colors[4] = <<"#", "z", "z", "0", "0", "0", "0">>
    /\ call.returned.complementary_palette[1] = <<"#", "0", "0", "f", "f", "f", "f">>

-----------------------------------------------------------------------------
(* DesignManager.  A dict is a record or a function on strings, {} is the
   empty function, and an optional string that was given is Some(s). *)

Some(s) == [value |-> s]
EmptyDict == << >>

\* d[k] = v
Put(d, k, v) == [i \in DOMAIN d \cup {k} |-> IF i = k THEN v ELSE d[i]]

\* del d[k]
Del(d, k) == [i \in DOMAIN d \ {k} |-> d[i]]

\* self.design_templates as _initialize_default_data fills it, abridged to
\* one industry and one template of two components
DesignTemplates ==
    [furniture |->
        [chair |->
            [name |-> "Chair Template",
             components |->
                 << [name |-> "Seat", required |-> TRUE,
                     properties |-> [load_capacity |-> 120]],
                    [name |-> "Armrests", required |-> FALSE,
                     properties |-> [load_capacity |-> 0]] >>,
             design_parameters |->
                 [style |-> <<"modern", "traditional">>,
                  use_case |-> <<"dining", "office">>],
             manufacturing_processes |-> <<"assembly", "upholstery">>]]]

\* get_template(industry, template_id)
GetTemplate(industry, template_id) ==
    Get(Get(DesignTemplates, industry, EmptyDict), template_id, EmptyDict)

\* get_design_project(project_id)
GetDesignProject(projects, project_id) == Get(projects, project_id, EmptyDict)

NewProjectActive(project_id, name, industry, template_id, reference_image, description, created_at, updated_at) ==
    [id |-> project_id, name |-> name, industry |-> industry,
     description |-> IF description # NoneValue THEN description
                     ELSE Some(<<"Design project for ", name>>),
     template_id |-> template_id, reference_image |-> reference_image,
     created_at |-> created_at, updated_at |-> updated_at, status |-> "active",
     design_data |-> EmptyDict, components |-> << >>, materials |-> << >>,
     manufacturing_processes |-> << >>, design_parameters |-> EmptyDict,
     analysis_results |-> EmptyDict, version_history |-> << >>]

\* create_design_project: the project dict that is stored
NewProject(project_id, name, industry, template_id, reference_image, description, created_at, updated_at) ==
    LET template == IF template_id # NoneValue
                    THEN GetTemplate(industry, template_id.value)
                    ELSE EmptyDict
        from_template == DOMAIN template # {}
    IN [id |-> project_id, name |-> name, industry |-> industry,
        description |-> IF description # NoneValue THEN description
                        ELSE Some(<<"Design project for ", name>>),
        template_id |-> template_id, reference_image |-> reference_image,
        created_at |-> created_at, updated_at |-> updated_at, status |-> "draft",
        design_data |-> EmptyDict,
        components |->
            IF from_template
            THEN LET cs == Get(template, "components", << >>)
                 IN [i \in 1..Len(cs) |->
                        [name |-> cs[i].name,
                         required |-> Get(cs[i], "required", TRUE),
                         selected_material |-> NoneValue,
                         properties |-> Get(cs[i], "properties", EmptyDict),
                         status |-> "pending"]]
            ELSE << >>,
        materials |-> << >>,
        manufacturing_processes |->
            IF from_template THEN Get(template, "manufacturing_processes", << >>)
            ELSE << >>,
        design_parameters |->
            IF from_template
            THEN LET ps == Get(template, "design_parameters", EmptyDict)
                 IN [param_name \in DOMAIN ps |->
                        [options |-> ps[param_name], selected |-> NoneValue]]
            ELSE EmptyDict,
        analysis_results |-> EmptyDict,
        version_history |-> << >>]

\* the keys update_design_project does not assign from updates
ProtectedKeys == {"id", "created_at", "version_history"}

\* the list object that is project['version_history'] of the project
SameList(project_id) == [list_of |-> project_id]

\* current_version = project.copy() with 'version_date' added: a shallow
\* copy, in which 'version_history' is the project's own list object
CurrentVersion(project, project_id) ==
    [k \in DOMAIN project \cup {"version_date"} |->
        IF k = "version_date" THEN Get(project, "updated_at", NoneValue)
        ELSE IF k = "version_history" THEN SameList(project_id)
        ELSE project[k]]

\* update_design_project has found no project and returns False at once
UpdateFindsNone(projects, project_id) == DOMAIN GetDesignProject(projects, project_id) = {}

\* update_design_project(project_id, updates) with a dict updates:
\* self.design_projects afterwards
UpdateDesignProject(projects, project_id, updates, now) ==
    LET project == GetDesignProject(projects, project_id)
        with_history ==
            Put(project, "version_history",
                Append(Get(project, "version_history", << >>),
                       CurrentVersion(project, project_id)))
        keys == DOMAIN updates \ ProtectedKeys
        applied == [k \in DOMAIN with_history \cup keys |->
                       IF k \in keys THEN updates[k] ELSE with_history[k]]
    IN IF UpdateFindsNone(projects, project_id) THEN projects
       ELSE Put(projects, project_id, Put(applied, "updated_at", now))

\* the analysis record image_recognition_service.analyze_image returns,
\* abridged
ImageAnalysis(image_path) ==
    [image_path |-> image_path, output_directory |-> ImageOutputDir(OutputDir, image_path)]

\* hasattr(self, 'image_recognition_service') and
\* self.image_recognition_service
ServiceAvailable(service) == service # "unset"

\* analyze_reference_image: the value returned
AnalyzeReferenceImageResult(projects, project_id, image_path, exists, service) ==
    IF DOMAIN GetDesignProject(projects, project_id) = {}
    THEN [error |-> "Project not found"]
    ELSE IF ~exists THEN [error |-> "Image not found"]
    ELSE IF ServiceAvailable(service) THEN ImageAnalysis(image_path)
    ELSE [error |-> "Image recognition service not available"]

\* analyze_reference_image: self.design_projects afterwards
AnalyzeReferenceImage(projects, project_id, image_path, exists, service, now) ==
    LET project == GetDesignProject(projects, project_id)
    IN IF DOMAIN project # {} /\ exists /\ ServiceAvailable(service)
       THEN Put(projects, project_id,
                Put(Put(Put(project, "reference_image", image_path),
                        "image_analysis", ImageAnalysis(image_path)),
                    "updated_at", now))
       ELSE projects

-----------------------------------------------------------------------------
(* Specification of the design manager *)

\* most datetime.now() calls made: two by a create, one by an update
MaxClock == 6

\* project identifiers: uuid.uuid4() returns a new identifier at each call,
\* here the number of the call; the last one is never handed out
ProjectIds == 1..((MaxClock + 1) \div 2)

CreateInputs ==
    { [name |-> "Test Chair", industry |-> "furniture", template_id |-> NoneValue,
       reference_image |-> NoneValue, description |-> Some(<<"A test chair design">>)],
      [name |-> "Office Chair", industry |-> "furniture", template_id |-> Some("chair"),
       reference_image |-> PathA, description |-> NoneValue],
      [name |-> "Robot", industry |-> "toys", template_id |-> Some("chair"),
       reference_image |-> NoneValue, description |-> NoneValue] }

\* request bodies of an update: with protected keys, with 'updated_at'
\* and with a new key
UpdateInputs ==
    { [name |-> "Renamed"],
      [id |-> 0, created_at |-> 0 - 1, version_history |-> << >>, status |-> "active"],
      [updated_at |-> 0 - 1, notes |-> "lighter"] }

InitDesign ==
    /\ DesignIdle
    /\ HelperIdle
    /\ ShapeIdle
    /\ ColorIdle
    /\ AnalyzerIdle
    /\ shape_analysis = NotYet
    /\ color_analysis = NotYet
    /\ texture_analysis = NotYet
    /\ model_params = NotYet

DesignFrame == UNCHANGED <<image_recognition_service, modelVars, shapeVars, colorVars,
                           analyzerVars>>

\* create_design_project(name, industry, template_id, reference_image,
\* description); each datetime.now() call returns a later time
CreateDesignProjectCall ==
    /\ clock + 2 <= MaxClock
    /\ \E args \in CreateInputs :
           LET project_id == uuids + 1
               created_at == clock + 1
               updated_at == clock + 2
               project == NewProject(project_id, args.name, args.industry,
                                     args.template_id, args.reference_image,
                                     args.description, created_at, updated_at)
           IN /\ design_projects' = Put(design_projects, project_id, project)
              /\ clock' = updated_at
              /\ call' = [method |-> "create_design_project", args |-> args,
                          before |-> design_projects, returned |-> project_id]
    /\ uuids' = uuids + 1
    /\ DesignFrame

\* get_design_project(project_id)
GetDesignProjectCall ==
    /\ \E project_id \in ProjectIds :
           call' = [method |-> "get_design_project", project_id |-> project_id,
                    before |-> design_projects,
                    returned |-> GetDesignProject(design_projects, project_id)]
    /\ UNCHANGED <<design_projects, uuids, clock>>
    /\ DesignFrame

\* update_design_project(project_id, updates)
UpdateDesignProjectCall ==
    /\ \E project_id \in ProjectIds, updates \in UpdateInputs :
           LET now == clock + 1
               found == ~UpdateFindsNone(design_projects, project_id)
           IN /\ found => now <= MaxClock
              /\ design_projects' = UpdateDesignProject(design_projects, project_id,
                                                        updates, now)
              /\ clock' = IF found THEN now ELSE clock
              /\ call' = [method |-> "update_design_project", project_id |-> project_id,
                          updates |-> updates, before |-> design_projects,
                          returned |-> found]
    /\ UNCHANGED uuids
    /\ DesignFrame

\* delete_design_project(project_id)
DeleteDesignProjectCall ==
    /\ \E project_id \in ProjectIds :
           /\ design_projects' = IF project_id \in DOMAIN design_projects
                                 THEN Del(design_projects, project_id)
                                 ELSE design_projects
           /\ call' = [method |-> "delete_design_project", project_id |-> project_id,
                       before |-> design_projects,
                       returned |-> project_id \in DOMAIN design_projects]
    /\ UNCHANGED <<uuids, clock>>
    /\ DesignFrame

\* analyze_reference_image(project_id, image_path); exists is what
\* os.path.exists(image_path) returns
AnalyzeReferenceImageCall ==
    /\ \E project_id \in ProjectIds, image_path \in {PathA, PathC}, exists \in BOOLEAN :
           LET now == clock + 1
               populated == /\ project_id \in DOMAIN design_projects
                            /\ exists
                            /\ ServiceAvailable(image_recognition_service)
           IN /\ populated => now <= MaxClock
              /\ design_projects' =
                     AnalyzeReferenceImage(design_projects, project_id, image_path, exists,
                                           image_recognition_service, now)
              /\ clock' = IF populated THEN now ELSE clock
              /\ call' = [method |-> "analyze_reference_image",
                          project_id |-> project_id, image_path |-> image_path,
                          exists |-> exists, before |-> design_projects,
                          returned |-> AnalyzeReferenceImageResult(design_projects,
                                           project_id, image_path, exists,
                                           image_recognition_service)]
    /\ UNCHANGED uuids
    /\ DesignFrame

NextDesign ==
    \/ CreateDesignProjectCall
    \/ GetDesignProjectCall
    \/ UpdateDesignProjectCall
    \/ DeleteDesignProjectCall
    \/ AnalyzeReferenceImageCall

SpecDesign == InitDesign /\ [][NextDesign]_vars

-----------------------------------------------------------------------------
(* Claims about the design manager *)

\* C26: after create_design_project(name, industry, ...) has returned an
\* id, the project stored under it, which is what get_design_project(id)
\* returns, has that id, the name and the industry given and status
\* 'draft'; the id was not stored before, and every project stored before
\* is unchanged.
C26_CreateThenGet ==
    /\ Calls("create_design_project") =>
           LET id == call.returned
           IN /\ id \notin DOMAIN call.before
              /\ id \in DOMAIN design_projects
              /\ design_projects[id].id = id
              /\ design_projects[id].name = call.args.name
              /\ design_projects[id].industry = call.args.industry
              /\ design_projects[id].status = "draft"
              /\ \A other \in DOMAIN call.before :
                     /\ other \in DOMAIN design_projects
                     /\ design_projects[other] = call.before[other]
    /\ (Calls("get_design_project") /\ call.project_id \in DOMAIN design_projects) =>
           call.returned = design_projects[call.project_id]

\* a second project was created from a template while the first was stored
C26_Witness ==
    /\ Calls("create_design_project")
    /\ call.returned = 2
    /\ 1 \in DOMAIN call.before
    /\ call.args.template_id # NoneValue
    /\ Len(design_projects[2].components) = 2

\* C27: after analyze_reference_image(project_id, image_path) for an
\* existing project and an existing image file, the value returned has no
\* 'error', the project's reference_image is image_path and its
\* image_analysis is the record that was returned.
C27_ReferenceImagePopulatesProject ==
    (/\ Calls("analyze_reference_image")
     /\ call.project_id \in DOMAIN call.before
     /\ call.exists) =>
        /\ "error" \notin DOMAIN call.returned
        /\ call.project_id \in DOMAIN design_projects
        /\ design_projects[call.project_id].reference_image = call.image_path
        /\ "image_analysis" \in DOMAIN design_projects[call.project_id]
        /\ design_projects[call.project_id].image_analysis = call.returned

\* the value a field of a snapshot has: the snapshot's version_history is
\* the list of the project it names
C30_FieldOf(snapshot, k) ==
    IF k = "version_history"
    THEN design_projects[snapshot[k].list_of].version_history
    ELSE snapshot[k]

\* C30: update_design_project on an unknown id returns False and changes
\* no project; on a known id it returns True, appends exactly one snapshot
\* to version_history, which holds the values the top-level fields had
\* before the update, assigns every key of updates except 'id',
\* 'created_at' and 'version_history', leaves 'id' and 'created_at' as they
\* were, and changes no other project.
C30_UpdateRule ==
    Calls("update_design_project") =>
        LET id == call.project_id
            before == call.before
        IN /\ id \notin DOMAIN before =>
                  (call.returned = FALSE /\ design_projects = before)
           /\ id \in DOMAIN before =>
                  LET old == before[id]
                      new == design_projects[id]
                      n == Len(old.version_history)
                  IN /\ call.returned = TRUE
                     /\ Len(new.version_history) = n + 1
                     /\ \A i \in 1..n :
                            new.version_history[i] = old.version_history[i]
                     /\ new.id = old.id
                     /\ new.created_at = old.created_at
                     /\ \A other \in DOMAIN before \ {id} :
                            design_projects[other] = before[other]
                     /\ \A k \in DOMAIN call.updates \ {"id", "created_at", "version_history"} :
                            new[k] = call.updates[k]
                     /\ \A k \in DOMAIN old :
                            C30_FieldOf(new.version_history[n + 1], k) = old[k]

-----------------------------------------------------------------------------
(* Claims about the truncated shape details *)

\* the contours of the call that are retained, in detection order
C28_Retained ==
    SelectSeq(call.contours, LAMBDA c : c.points >= 5 /\ c.area >= 100)

\* C28: shape_details has at most 5 records and they are the first retained
\* shapes in detection order, while shape_count is the number of all
\* retained shapes; the record _generate_dimensions uses is a record of
\* largest area among shape_details, and when at most 5 shapes were
\* retained no retained shape has a larger area.
C28_DetailsAreFirstFive ==
    Calls("detect_shapes, _generate_dimensions") =>
        LET details == call.shape_analysis.shape_details
            n == Len(C28_Retained)
        IN /\ Len(details) <= 5
           /\ Len(details) = (IF n < 5 THEN n ELSE 5)
           /\ call.shape_analysis.shape_count = n
           /\ call.shape_analysis.shape_count >= Len(details)
           /\ \A i \in 1..Len(details) :
                  /\ details[i].area = C28_Retained[i].area
                  /\ details[i].vertices = C28_Retained[i].vertices
                  /\ details[i].compactness = C28_Retained[i].compactness
           /\ details # << >> =>
                  /\ \E i \in 1..Len(details) : details[i] = call.largest_shape
                  /\ \A i \in 1..Len(details) : details[i].area <= call.largest_shape.area
           /\ (details # << >> /\ n <= 5) =>
                  \A i \in 1..n : C28_Retained[i].area <= call.largest_shape.area

\* six shapes were retained and the sixth, the largest of the image, is not
\* the record the dimensions were taken from
C28_Witness ==
    /\ Calls("detect_shapes, _generate_dimensions")
    /\ Len(C28_Retained) = 6
    /\ C28_Retained[6].area = 15000
    /\ call.shape_analysis.shape_count = 6
    /\ call.largest_shape.area = 900

-----------------------------------------------------------------------------
(* Claims about the bonus material *)

\* the material the pattern type of the call adds
C29_Bonus ==
    IF CallPatternType = "Geometric" THEN "3D Printed Polymer" ELSE "Natural Wood"

\* C29: for pattern Geometric or Organic the bonus material ('3D Printed
\* Polymer' or 'Natural Wood') is in the list returned by _suggest_materials
\* if and only if the texture type is none of Smooth, Matte, Rough and
\* Textured; for these four the list has 3 entries, none of them the bonus,
\* and for any other texture type it is ['Plastic', bonus].
C29_BonusOnlyWithDefault ==
    (Calls("_suggest_materials") /\ CallPatternType \in {"Geometric", "Organic"}) =>
        LET r == call.returned
            present == \E i \in 1..Len(r) : r[i] = C29_Bonus
            full == CallTextureType \in {"Smooth", "Matte", "Rough", "Textured"}
        IN /\ present <=> ~full
           /\ full => (Len(r) = 3 /\ \A i \in 1..3 : r[i] # C29_Bonus)
           /\ ~full => r = <<"Plastic", C29_Bonus>>

\* a texture type without candidates of its own and a geometric pattern:
\* the bonus follows 'Plastic'
C29_Witness ==
    /\ Calls("_suggest_materials")
    /\ CallTextureType = "Coarse"
    /\ CallPatternType = "Geometric"
    /\ call.returned = <<"Plastic", "3D Printed Polymer">>

=============================================================================
